---- MODULE Spec2Model ----
(***************************************************************************)
(* A model of the weerust weather-telemetry service:                       *)
(*   - the interval buffer and the interval aggregator (weex-archive),     *)
(*   - the aggregation engine (weex-core rollups),                         *)
(*   - the live state registry and its HTTP handlers (weewx-cli),          *)
(*   - the station drivers (weex-ingest),                                  *)
(*   - the scheduler of the daemon (weex-daemon),                          *)
(*   - readiness, health and the HTTP intake handlers (weewx-cli).         *)
(* Each subsystem has its own variables and actions, and its own           *)
(* specification: SpecArchive, SpecLive, SpecDriver, SpecScheduler,        *)
(* SpecArchiveSigned, SpecApi, SpecIngest, SpecLoops, SpecBuffer,          *)
(* SpecRollups.                                                            *)
(***************************************************************************)
EXTENDS Integers, Sequences, FiniteSets, TLC

(***************************************************************************)
(* Bounds of the model                                                     *)
(***************************************************************************)
\* packet timestamps range over 0 .. MaxTime
MaxTime == 3
\* wall-clock values force_flush can read range over 0 .. MaxNow
MaxNow == 1
\* number of add_packet calls in a run
MaxAdds == 4
\* number of force_flush calls in a run
MaxFlushes == 2
\* stands for the floor 100 of max_packets = max(2*I, 100) (buffer.rs:20),
\* scaled down so that a run of MaxAdds packets can fill the buffer
MAX_PACKETS_FLOOR == 2

\* stands for HISTORY_CAP = 1000 (weewx-cli lib.rs:26), scaled down so that
\* a run of MaxInject packets overflows the history
HISTORY_CAP == 2
\* number of inject_packet calls in a run
MaxInject == 3
\* stands for the default limit 100 of GET /api/v1/history (weewx-cli
\* lib.rs:189), scaled down with HISTORY_CAP so that it stays below the cap
DEFAULT_LIMIT == 1
\* number of calls on the station drivers in a run
MaxDriverCalls == 3
\* stands for i64::MAX = 2^63 - 1, scaled down so that the timestamps
\* 0 .. I64_MAX can be enumerated
I64_MAX == 31
\* aggregate_packets is called on slices of at most MaxSlice packets
MaxSlice == 3

\* interval lengths IntervalAggregator::new is called with
Intervals == {1, 2}
\* unit-system tag IntervalAggregator::new is called with (16 = Metric)
UnitSystems == {16}

TimeStamps == 0..MaxTime
NowValues == 0..MaxNow

(***************************************************************************)
(* State                                                                   *)
(***************************************************************************)
VARIABLES
    \* weex-archive: the interval aggregator
    aggregator,   \* the IntervalAggregator: interval, unit_system, buffer
    sink_log,     \* the rows handed to DbClient::insert_archive, in order
    fed,          \* the add_packet calls so far: the packet and the value returned
    last_call,    \* the last call on the aggregator and what it returned
    n_flushes,    \* number of force_flush calls so far
    \* weewx-cli: the live state
    latest,        \* AppState.latest: Option<WeatherPacket>
    history,       \* AppState.history: Vec<WeatherPacket>
    latest_lock,   \* the task holding the latest mutex, if any
    history_lock,  \* the task holding the history mutex, if any
    task,          \* per task: the handler it runs, its position, its packet and limit
    response,      \* per task: the response of the handler it last completed,
                   \* until it starts another: status, kind of JSON, packets
    prev_current,  \* per task: the packet its last GET /api/v1/current returned
    injected,      \* the packets inject_packet was called with, in call order
    appended,      \* the packets pushed to history so far, in push order
    torn_read,     \* per task: its last history read followed a current read
                   \* that returned a packet not yet pushed to history
    concurrent_inject,  \* an inject_packet call began while another was running
    \* weex-ingest: the station drivers
    simulator,     \* the SimulatorDriver: interval, active
    interceptor,   \* the InterceptorUdpDriver: socket, active
    driver_log,    \* the calls on the drivers so far: driver, operation, input,
                   \* the driver before the call, the value returned
    \* weex-daemon: the scheduler (it owns an aggregator and a driver)
    scheduler,     \* the Scheduler and the main task: running, the point the
                   \* task is at, what the last process_packet cycle
                   \* returned, the value stop returned
    scheduler_trace, \* the calls the main task made on the driver and the
                     \* aggregator since the shutdown signal, with their results
    \* weewx-cli: the rest of AppState, and the HTTP requests served
    ready,           \* AppState.ready: AtomicBool
    requests_total,  \* AppState.requests_total: the weewx_requests_total counter
    api_last,        \* the last request served: its number, route, parameters,
                     \* the status and body returned,
                     \* and the route and status of the request before it
    \* weewx-cli: the UDP ingest task of start_interceptor_ingest
    ingest,          \* the task: the point it is at, the bind address, what
                     \* start_interceptor_ingest returned, whether it has a
                     \* filesystem sink, the packet it is handling
    wire,            \* the datagrams in the receive queue of the driver's socket
    emitted,         \* the emit calls on the filesystem sink, in order: the line,
                     \* and whether it was written to packets.jsonl
    client,          \* the UDP sender and HTTP reader outside the service: the
                     \* datagrams sent, the last response to GET /api/v1/current
    \* weex-archive and weex-core called on their own
    packet_buffer,   \* a PacketBuffer
    call             \* the last call on packet_buffer or of a free function:
                     \* its name, its arguments, the receiver before, the result

archiveVars == << aggregator, sink_log, fed, last_call, n_flushes >>
liveVars == << latest, history, latest_lock, history_lock, task, response,
               prev_current, injected, appended, torn_read, concurrent_inject >>
driverVars == << simulator, interceptor, driver_log >>
schedulerVars == << scheduler, scheduler_trace >>
apiVars == << ready, requests_total, api_last >>
ingestVars == << ingest, wire, emitted, client >>
coreVars == << packet_buffer, call >>
vars == << archiveVars, liveVars, driverVars, schedulerVars, apiVars,
           ingestVars, coreVars >>

\* what the actions of one part leave alone
notArchive == << liveVars, driverVars, schedulerVars, apiVars, ingestVars, coreVars >>
notLive == << archiveVars, driverVars, schedulerVars, apiVars, ingestVars, coreVars >>
notDriver == << archiveVars, liveVars, schedulerVars, apiVars, ingestVars, coreVars >>
notScheduler == << liveVars, driverVars, apiVars, ingestVars, coreVars >>
\* what a request served on its own leaves alone: the other parts, and the
\* locks, tasks and bookkeeping of the concurrent handlers
notApi == << archiveVars, driverVars, schedulerVars, ingestVars, coreVars,
             latest_lock, history_lock, task, response, prev_current,
             injected, appended, torn_read, concurrent_inject >>
\* what the UDP ingest task, its sender and its reader leave alone
notIngest == << archiveVars, schedulerVars, apiVars, coreVars,
                simulator, driver_log,
                latest_lock, history_lock, task, response, prev_current,
                injected, appended, torn_read, concurrent_inject >>

(***************************************************************************)
(* Option<T>: None is the empty sequence, Some(x) the one-element sequence *)
(***************************************************************************)
None == << >>
Some(x) == << x >>
IsSome(o) == o # None
Unwrap(o) == o[1]

Range(s) == {s[i] : i \in 1..Len(s)}
MaxOf(a, b) == IF a >= b THEN a ELSE b
Abs(x) == IF x < 0 THEN 0 - x ELSE x

\* Rust's integer division truncates toward zero (TLA+'s \div floors)
TruncDiv(a, b) ==
    IF (a >= 0) = (b > 0) THEN Abs(a) \div Abs(b) ELSE 0 - (Abs(a) \div Abs(b))

(***************************************************************************)
(* weex-core types: ObservationValue and WeatherPacket                     *)
(* A Float or Integer payload is an integer; a String payload is a code.   *)
(***************************************************************************)
Float(v) == [tag |-> "Float", v |-> v]
Integer(v) == [tag |-> "Integer", v |-> v]
String(v) == [tag |-> "String", v |-> v]
Null == [tag |-> "Null", v |-> 0]

\* as_f64 reading Null as zero
as_f64_null_as_zero(value) ==
    CASE value.tag = "Float" -> Some(value.v)
      [] value.tag = "Integer" -> Some(value.v)
      [] value.tag = "Null" -> Some(0)
      [] OTHER -> None

\* ObservationValue::as_f64
as_f64(value) ==
    CASE value.tag = "Float" -> Some(value.v)
      [] value.tag = "Integer" -> Some(value.v)
      [] OTHER -> None

\* the packets of the model: a timestamp and an observation map
Packet(t, obs) == [date_time |-> t, observations |-> obs]

\* the observation map of the packet the model's sources send with
\* timestamp t: its values differ from packet to packet, and its keys
\* cover the Sum, Avg, Max and Last defaults, a key outside the archive
\* schema, and the non-numeric variants
ObsFor(t) ==
    IF t % 2 = 0
    THEN ("outTemp" :> Float(t) @@ "windDir" :> Integer(t) @@ "rain" :> Float(1)
          @@ "soilTemp1" :> Float(t))
    ELSE ("outTemp" :> Float(t) @@ "windGust" :> Float(t) @@ "windDir" :> Null
          @@ "note" :> String(t) @@ "rainRate" :> Float(t))

Packets == {Packet(t, ObsFor(t)) : t \in TimeStamps}

(***************************************************************************)
(* weex-core rollups: Accumulator, default_aggregate_type,                 *)
(* aggregate_packets.  An f64 result is an exact fraction [n, d], d > 0.   *)
(***************************************************************************)
RECURSIVE Gcd(_, _)
Gcd(a, b) == IF b = 0 THEN a ELSE Gcd(b, a % b)

Frac(n, d) ==
    LET g == Gcd(Abs(n), d) IN [n |-> n \div g, d |-> d \div g]

RECURSIVE SumSeq(_)
SumSeq(s) == IF s = << >> THEN 0 ELSE s[1] + SumSeq(Tail(s))

RECURSIVE MinSeq(_)
MinSeq(s) ==
    IF Len(s) = 1 THEN s[1]
    ELSE LET m == MinSeq(Tail(s)) IN IF s[1] <= m THEN s[1] ELSE m

RECURSIVE MaxSeq(_)
MaxSeq(s) ==
    IF Len(s) = 1 THEN s[1]
    ELSE LET m == MaxSeq(Tail(s)) IN IF s[1] >= m THEN s[1] ELSE m

\* Accumulator::result with Last taken as the greatest observation
Accumulator_result_last_as_max(aggregate_type, observations) ==
    IF observations = << >> THEN None
    ELSE Some(CASE aggregate_type = "Min" -> Frac(MinSeq(observations), 1)
                [] aggregate_type \in {"Max", "Last"} ->
                       Frac(MaxSeq(observations), 1)
                [] aggregate_type = "Sum" -> Frac(SumSeq(observations), 1)
                [] aggregate_type = "Avg" ->
                       Frac(SumSeq(observations), Len(observations))
                [] aggregate_type = "First" -> Frac(observations[1], 1)
                [] aggregate_type = "Count" -> Frac(Len(observations), 1))

\* Accumulator::result for an accumulator of the given kind holding
\* `observations` (in the order added)
Accumulator_result(aggregate_type, observations) ==
    IF observations = << >> THEN None
    ELSE Some(CASE aggregate_type = "Min" -> Frac(MinSeq(observations), 1)
                [] aggregate_type = "Max" -> Frac(MaxSeq(observations), 1)
                [] aggregate_type = "Sum" -> Frac(SumSeq(observations), 1)
                [] aggregate_type = "Avg" ->
                       Frac(SumSeq(observations), Len(observations))
                [] aggregate_type = "Last" ->
                       Frac(observations[Len(observations)], 1)
                [] aggregate_type = "First" -> Frac(observations[1], 1)
                [] aggregate_type = "Count" -> Frac(Len(observations), 1))

\* default_aggregate_type with the wind gust averaged
default_aggregate_type_gust_avg(obs_type) ==
    CASE obs_type = "rain" -> "Sum"
      [] obs_type \in {"windDir", "windGustDir"} -> "Last"
      [] obs_type \in {"outTemp", "inTemp", "dewpoint", "heatindex",
                       "windchill", "barometer", "pressure", "altimeter",
                       "windSpeed", "windGust", "outHumidity", "inHumidity",
                       "radiation", "UV"} -> "Avg"
      [] OTHER -> "Last"

default_aggregate_type(obs_type) ==
    CASE obs_type = "rain" -> "Sum"
      [] obs_type \in {"outTemp", "inTemp", "dewpoint", "heatindex", "windchill"} -> "Avg"
      [] obs_type \in {"barometer", "pressure", "altimeter"} -> "Avg"
      [] obs_type = "windSpeed" -> "Avg"
      [] obs_type = "windGust" -> "Max"
      [] obs_type \in {"windDir", "windGustDir"} -> "Last"
      [] obs_type \in {"outHumidity", "inHumidity"} -> "Avg"
      [] obs_type = "radiation" -> "Avg"
      [] obs_type = "UV" -> "Avg"
      [] OTHER -> "Last"

\* the values Accumulator::add receives for `key`, in packet order
RECURSIVE NumericValues(_, _)
NumericValues(packets, key) ==
    IF packets = << >> THEN << >>
    ELSE LET obs == Head(packets).observations
             here == IF key \in DOMAIN obs /\ IsSome(as_f64(obs[key]))
                     THEN << Unwrap(as_f64(obs[key])) >> ELSE << >>
         IN here \o NumericValues(Tail(packets), key)

aggregate_packets(packets) ==
    LET keys == UNION {DOMAIN packets[i].observations : i \in 1..Len(packets)}
        numeric == {k \in keys : NumericValues(packets, k) # << >>}
    IN [k \in numeric |->
          [kind |-> default_aggregate_type(k),
           value |-> Accumulator_result(default_aggregate_type(k),
                                        NumericValues(packets, k))]]

(***************************************************************************)
(* weex-archive: PacketBuffer                                              *)
(***************************************************************************)
\* PacketBuffer::new
PacketBuffer_new(interval) ==
    [interval |-> interval,
     packets |-> << >>,
     current_interval_end |-> None,
     max_packets |-> MaxOf(interval * 2, MAX_PACKETS_FLOOR)]

\* calculate_interval_end with a multiple of the interval as its own end
calculate_interval_end_inclusive(interval, timestamp) ==
    IF timestamp % interval = 0 THEN timestamp
    ELSE (TruncDiv(timestamp, interval) + 1) * interval

\* calculate_interval_end rounding down to the start of the interval
calculate_interval_end_start(interval, timestamp) ==
    TruncDiv(timestamp, interval) * interval

\* PacketBuffer::calculate_interval_end
calculate_interval_end(interval, timestamp) ==
    (TruncDiv(timestamp, interval) + 1) * interval

\* PacketBuffer::add with a packet at the interval end counted as crossing it
PacketBuffer_add_end_exclusive(buf, packet) ==
    IF Len(buf.packets) >= buf.max_packets
    THEN [buf |-> buf, err |-> "BufferOverflow", ok |-> None]
    ELSE LET packet_time == packet.date_time
             interval_end ==
                 IF IsSome(buf.current_interval_end)
                 THEN Unwrap(buf.current_interval_end)
                 ELSE calculate_interval_end(buf.interval, packet_time)
         IN IF packet_time < interval_end
            THEN [buf |-> [buf EXCEPT !.packets = Append(@, packet),
                                      !.current_interval_end = Some(interval_end)],
                  err |-> "",
                  ok |-> None]
            ELSE [buf |-> [buf EXCEPT !.packets = Append(@, packet),
                                      !.current_interval_end =
                                          Some(calculate_interval_end(buf.interval, packet_time))],
                  err |-> "",
                  ok |-> Some(interval_end)]

\* PacketBuffer::add with the overflow test off by one (> for >=)
PacketBuffer_add_late_overflow(buf, packet) ==
    IF Len(buf.packets) > buf.max_packets
    THEN [buf |-> buf, err |-> "BufferOverflow", ok |-> None]
    ELSE LET packet_time == packet.date_time
             interval_end ==
                 IF IsSome(buf.current_interval_end)
                 THEN Unwrap(buf.current_interval_end)
                 ELSE calculate_interval_end(buf.interval, packet_time)
         IN IF packet_time <= interval_end
            THEN [buf |-> [buf EXCEPT !.packets = Append(@, packet),
                                      !.current_interval_end = Some(interval_end)],
                  err |-> "",
                  ok |-> None]
            ELSE [buf |-> [buf EXCEPT !.packets = Append(@, packet),
                                      !.current_interval_end =
                                          Some(calculate_interval_end(buf.interval, packet_time))],
                  err |-> "",
                  ok |-> Some(interval_end)]

\* PacketBuffer::add: the buffer after the call and the value returned,
\* Ok(None), Ok(Some(end)) or Err(BufferOverflow)
PacketBuffer_add(buf, packet) ==
    IF Len(buf.packets) >= buf.max_packets
    THEN [buf |-> buf, err |-> "BufferOverflow", ok |-> None]
    ELSE LET packet_time == packet.date_time
             interval_end ==
                 IF IsSome(buf.current_interval_end)
                 THEN Unwrap(buf.current_interval_end)
                 ELSE calculate_interval_end(buf.interval, packet_time)
         IN IF packet_time <= interval_end
            THEN [buf |-> [buf EXCEPT !.packets = Append(@, packet),
                                      !.current_interval_end = Some(interval_end)],
                  err |-> "",
                  ok |-> None]
            ELSE [buf |-> [buf EXCEPT !.packets = Append(@, packet),
                                      !.current_interval_end =
                                          Some(calculate_interval_end(buf.interval, packet_time))],
                  err |-> "",
                  ok |-> Some(interval_end)]

\* drain returning a copy of the packets and leaving them buffered
PacketBuffer_drain_copying(buf) ==
    [buf |-> [buf EXCEPT !.current_interval_end = None], packets |-> buf.packets]

\* drain leaving current_interval_end as it was
PacketBuffer_drain_keeping_end(buf) ==
    [buf |-> [buf EXCEPT !.packets = << >>], packets |-> buf.packets]

\* PacketBuffer::drain: the buffer after the call and the packets returned
PacketBuffer_drain(buf) ==
    [buf |-> [buf EXCEPT !.packets = << >>, !.current_interval_end = None],
     packets |-> buf.packets]

(***************************************************************************)
(* weex-archive: IntervalAggregator                                        *)
(***************************************************************************)
\* the columns of ArchiveRow filled from the aggregates
ArchiveColumns ==
    {"outTemp", "inTemp", "extraTemp1", "outHumidity", "inHumidity",
     "barometer", "pressure", "altimeter", "windSpeed", "windDir",
     "windGust", "windGustDir", "rain", "rainRate", "dewpoint",
     "windchill", "heatindex", "radiation", "UV", "rxCheckPercent"}

\* IntervalAggregator::new
IntervalAggregator_new(interval, unit_system) ==
    [interval |-> interval,
     unit_system |-> unit_system,
     buffer |-> PacketBuffer_new(interval)]

\* build_archive_row with the windDir column read from windGustDir
build_archive_row_wind_dir_from_gust(agg, date_time, aggregates) ==
    [date_time |-> date_time,
     us_units |-> agg.unit_system,
     interval |-> agg.interval,
     columns |-> [key \in ArchiveColumns |->
                    LET read == IF key = "windDir" THEN "windGustDir" ELSE key
                    IN IF read \in DOMAIN aggregates
                       THEN aggregates[read].value ELSE None]]

\* IntervalAggregator::build_archive_row
build_archive_row(agg, date_time, aggregates) ==
    [date_time |-> date_time,
     us_units |-> agg.unit_system,
     interval |-> agg.interval,
     columns |-> [key \in ArchiveColumns |->
                    IF key \in DOMAIN aggregates
                    THEN aggregates[key].value ELSE None]]

\* flush_interval without the early return on an empty buffer
flush_interval_writing_empty(agg, end_time, sink_ok) ==
    LET d == PacketBuffer_drain(agg.buffer)
        after == [agg EXCEPT !.buffer = d.buf]
    IN [agg |-> after,
        handed |-> << [row |-> build_archive_row(agg, end_time,
                                   aggregate_packets(d.packets)),
                       packets |-> d.packets,
                       inserted |-> sink_ok] >>,
        ret |-> IF sink_ok THEN "Ok" ELSE "DatabaseError"]

\* flush_interval keeping the packets buffered when the insert fails
flush_interval_restoring(agg, end_time, sink_ok) ==
    LET d == PacketBuffer_drain(agg.buffer)
        after == [agg EXCEPT !.buffer = d.buf]
    IN IF d.packets = << >>
       THEN [agg |-> after, handed |-> << >>, ret |-> "Ok"]
       ELSE [agg |-> IF sink_ok THEN after ELSE agg,
             handed |-> << [row |-> build_archive_row(agg, end_time,
                                        aggregate_packets(d.packets)),
                            packets |-> d.packets,
                            inserted |-> sink_ok] >>,
             ret |-> IF sink_ok THEN "Ok" ELSE "DatabaseError"]

\* IntervalAggregator::flush_interval: the aggregator after the call, the
\* rows handed to the sink (none or one), and the value returned.
\* sink_ok is the outcome of DbClient::insert_archive.
flush_interval(agg, end_time, sink_ok) ==
    LET d == PacketBuffer_drain(agg.buffer)
        after == [agg EXCEPT !.buffer = d.buf]
    IN IF d.packets = << >>
       THEN [agg |-> after, handed |-> << >>, ret |-> "Ok"]
       ELSE [agg |-> after,
             handed |-> << [row |-> build_archive_row(agg, end_time,
                                        aggregate_packets(d.packets)),
                            packets |-> d.packets,
                            inserted |-> sink_ok] >>,
             ret |-> IF sink_ok THEN "Ok" ELSE "DatabaseError"]

\* add_packet flushing the full buffer before it reports the overflow
add_packet_result_flushing_on_overflow(agg, packet, sink_ok) ==
    LET a == PacketBuffer_add(agg.buffer, packet)
        added == [agg EXCEPT !.buffer = a.buf]
    IN IF a.err # ""
       THEN [flush_interval(agg, packet.date_time, sink_ok) EXCEPT !.ret = a.err]
       ELSE IF IsSome(a.ok)
            THEN flush_interval(added, Unwrap(a.ok), sink_ok)
            ELSE [agg |-> added, handed |-> << >>, ret |-> "Ok"]

\* IntervalAggregator::add_packet
add_packet_result(agg, packet, sink_ok) ==
    LET a == PacketBuffer_add(agg.buffer, packet)
        added == [agg EXCEPT !.buffer = a.buf]
    IN IF a.err # ""
       THEN [agg |-> agg, handed |-> << >>, ret |-> a.err]
       ELSE IF IsSome(a.ok)
            THEN flush_interval(added, Unwrap(a.ok), sink_ok)
            ELSE [agg |-> added, handed |-> << >>, ret |-> "Ok"]

\* IntervalAggregator::force_flush; now is chrono::Utc::now().timestamp()
force_flush_result(agg, now, sink_ok) == flush_interval(agg, now, sink_ok)

ArchiveInit ==
    /\ \E interval \in Intervals, unit_system \in UnitSystems :
           aggregator = IntervalAggregator_new(interval, unit_system)
    /\ sink_log = << >>
    /\ fed = << >>
    /\ last_call = [op |-> "new", before |-> aggregator.buffer, ret |-> "Ok",
                    handed |-> 0]
    /\ n_flushes = 0

\* force_flush is the shutdown step (Scheduler::stop, and the last call of
\* every test): no packet is added after it
add_packet(packet, sink_ok) ==
    /\ Len(fed) < MaxAdds
    /\ n_flushes = 0
    /\ LET r == add_packet_result(aggregator, packet, sink_ok)
       IN /\ aggregator' = r.agg
          /\ sink_log' = sink_log \o r.handed
          /\ last_call' = [op |-> "add_packet", before |-> aggregator.buffer,
                           ret |-> r.ret, handed |-> Len(r.handed)]
          /\ fed' = Append(fed, [packet |-> packet, ret |-> r.ret])
    /\ UNCHANGED n_flushes
    /\ UNCHANGED notArchive

force_flush(now, sink_ok) ==
    /\ n_flushes < MaxFlushes
    /\ LET r == force_flush_result(aggregator, now, sink_ok)
       IN /\ aggregator' = r.agg
          /\ sink_log' = sink_log \o r.handed
          /\ last_call' = [op |-> "force_flush", before |-> aggregator.buffer,
                           ret |-> r.ret, handed |-> Len(r.handed)]
    /\ n_flushes' = n_flushes + 1
    /\ UNCHANGED fed
    /\ UNCHANGED notArchive

ArchiveNext ==
    \/ \E packet \in Packets, sink_ok \in BOOLEAN : add_packet(packet, sink_ok)
    \/ \E now \in NowValues, sink_ok \in BOOLEAN : force_flush(now, sink_ok)

\* the packets of a source whose dateTime (an i64) is not checked: the
\* packets above and one with a negative timestamp
SignedPackets == Packets \cup {Packet(0 - 1, ObsFor(1))}

SignedNext ==
    \/ \E packet \in SignedPackets, sink_ok \in BOOLEAN :
           add_packet(packet, sink_ok)
    \/ \E now \in NowValues, sink_ok \in BOOLEAN : force_flush(now, sink_ok)

\* the aggregator before any call, for the specifications of the other parts
ArchiveUnused ==
    /\ aggregator = IntervalAggregator_new(1, 16)
    /\ sink_log = << >>
    /\ fed = << >>
    /\ last_call = [op |-> "new", before |-> aggregator.buffer, ret |-> "Ok",
                    handed |-> 0]
    /\ n_flushes = 0

(***************************************************************************)
(* weewx-cli: the live state (AppState) and the code that locks it.        *)
(* Every task runs one handler at a time; a handler is a sequence of       *)
(* steps, and tasks interleave between steps (tokio's multi-thread         *)
(* runtime).  A step that uses a guard also drops it when the code drops   *)
(* it right after the use.                                                 *)
(***************************************************************************)
\* the UDP ingest task of start_interceptor_ingest, and HTTP connections
UdpTask == "udp"
HttpTasks == {"http1", "http2"}
Tasks == {UdpTask} \cup HttpTasks
\* the tasks that ingest: the UDP loop and the connection that posts to
\* /ingest/ecowitt or /ingest
IngestTasks == {UdpTask, "http2"}
\* the connection whose client reads /api/v1/current and /api/v1/history
ReaderTasks == {"http1"}

\* the n-th packet handed to inject_packet
LivePacket(n) == Packet(n, << >>)

\* inject_packet taking the history guard first and holding it across the
\* update of latest
inject_packet_code_nested ==
    << "lock_history", "lock_latest", "store_latest", "push_history" >>

\* inject_packet (lib.rs:126-137): the latest guard lives in the inner block,
\* the history guard to the end of the function
inject_packet_code ==
    << "lock_latest", "store_latest", "lock_history", "push_history" >>

\* current (lib.rs:172-178)
current_code == << "lock_latest", "load_latest" >>

\* history (lib.rs:185-194)
history_code == << "lock_history", "load_history" >>

CodeOf(op) ==
    CASE op = "inject_packet" -> inject_packet_code
      [] op = "current" -> current_code
      [] op = "history" -> history_code
      [] OTHER -> << >>

Idle == [op |-> "idle", pc |-> 0, packet |-> None, limit |-> None]

\* the step task t is about to execute
Instr(t) == IF task[t].op = "idle" THEN "none" ELSE CodeOf(task[t].op)[task[t].pc]

\* task t after the step it is at: the next step, or back to idle
Advanced(t) ==
    IF task[t].pc = Len(CodeOf(task[t].op)) THEN Idle
    ELSE [task[t] EXCEPT !.pc = @ + 1]

\* a mutex after task t dropped its guard, if it held one
Dropped(lock, t) == IF lock = Some(t) THEN None ELSE lock

\* hist.push(packet) without the drain of the overflow
push_capped_no_drain(hist, packet) == Append(hist, packet)

\* hist.push(packet) followed by the drain of the overflow (lib.rs:132-136)
push_capped(hist, packet) ==
    LET pushed == Append(hist, packet)
    IN IF Len(pushed) > HISTORY_CAP
       THEN SubSeq(pushed, Len(pushed) - HISTORY_CAP + 1, Len(pushed))
       ELSE pushed

\* the slice of history computed without clamping the limit to the cap and
\* without the default
history_slice_unclamped(hist, limit) ==
    LET lim == IF IsSome(limit) THEN Unwrap(limit) ELSE HISTORY_CAP
        start == IF Len(hist) >= lim THEN Len(hist) - lim ELSE 0
    IN SubSeq(hist, start + 1, Len(hist))

\* the slice the history handler returns (lib.rs:189-192); limit is q.limit
history_slice(hist, limit) ==
    LET requested == IF IsSome(limit) THEN Unwrap(limit) ELSE DEFAULT_LIMIT
        lim == IF requested <= HISTORY_CAP THEN requested ELSE HISTORY_CAP
        start == IF Len(hist) >= lim THEN Len(hist) - lim ELSE 0
    IN SubSeq(hist, start + 1, Len(hist))

\* no response: the task has not completed a handler, or runs one
NoResponse == [status |-> 0, json |-> "none", body |-> << >>]

\* current without the NO_CONTENT branch
current_response_always_ok(slot) ==
    [status |-> 200, json |-> "object", body |-> slot]

\* what current returns for the latest slot it finds (lib.rs:173-177)
current_response(slot) ==
    IF IsSome(slot) THEN [status |-> 200, json |-> "object", body |-> slot]
    ELSE [status |-> 204, json |-> "none", body |-> << >>]

\* what history returns for the vector it finds (lib.rs:189-193)
history_response(hist, limit) ==
    [status |-> 200, json |-> "array", body |-> history_slice(hist, limit)]

LiveInit ==
    /\ latest = None
    /\ history = << >>
    /\ latest_lock = None
    /\ history_lock = None
    /\ task = [t \in Tasks |-> Idle]
    /\ response = [t \in Tasks |-> NoResponse]
    /\ prev_current = [t \in Tasks |-> None]
    /\ injected = << >>
    /\ appended = << >>
    /\ torn_read = [t \in Tasks |-> FALSE]
    /\ concurrent_inject = FALSE

\* a task calls inject_packet: the UDP loop with a received packet, an HTTP
\* task from ingest_ecowitt or ingest_post
call_inject_packet(t) ==
    /\ task[t].op = "idle"
    /\ Len(injected) < MaxInject
    /\ task' = [task EXCEPT ![t] = [op |-> "inject_packet", pc |-> 1,
                                    packet |-> Some(LivePacket(Len(injected) + 1)),
                                    limit |-> None]]
    /\ injected' = Append(injected, LivePacket(Len(injected) + 1))
    /\ concurrent_inject' =
           (concurrent_inject \/ \E u \in Tasks : task[u].op = "inject_packet")
    /\ response' = [response EXCEPT ![t] = NoResponse]
    /\ UNCHANGED << latest, history, latest_lock, history_lock,
                    prev_current, appended, torn_read >>
    /\ UNCHANGED notLive

\* an HTTP task starts GET /api/v1/current
call_current(t) ==
    /\ task[t].op = "idle"
    /\ task' = [task EXCEPT ![t] = [op |-> "current", pc |-> 1,
                                    packet |-> None, limit |-> None]]
    /\ response' = [response EXCEPT ![t] = NoResponse]
    /\ UNCHANGED << latest, history, latest_lock, history_lock,
                    prev_current, injected, appended, torn_read, concurrent_inject >>
    /\ UNCHANGED notLive

\* an HTTP task starts GET /api/v1/history with the given limit parameter
call_history(t, limit) ==
    /\ task[t].op = "idle"
    /\ task' = [task EXCEPT ![t] = [op |-> "history", pc |-> 1,
                                    packet |-> None, limit |-> limit]]
    /\ response' = [response EXCEPT ![t] = NoResponse]
    /\ UNCHANGED << latest, history, latest_lock, history_lock,
                    prev_current, injected, appended, torn_read, concurrent_inject >>
    /\ UNCHANGED notLive

\* state.latest.lock().await
lock_latest(t) ==
    /\ Instr(t) = "lock_latest"
    /\ latest_lock = None
    /\ latest_lock' = Some(t)
    /\ task' = [task EXCEPT ![t] = Advanced(t)]
    /\ UNCHANGED response
    /\ UNCHANGED << latest, history, history_lock, prev_current,
                    injected, appended, torn_read,
                    concurrent_inject >>
    /\ UNCHANGED notLive

\* state.history.lock().await
lock_history(t) ==
    /\ Instr(t) = "lock_history"
    /\ history_lock = None
    /\ history_lock' = Some(t)
    /\ task' = [task EXCEPT ![t] = Advanced(t)]
    /\ UNCHANGED response
    /\ UNCHANGED << latest, history, latest_lock, prev_current,
                    injected, appended, torn_read,
                    concurrent_inject >>
    /\ UNCHANGED notLive

\* *latest = Some(packet.clone()), and the guard is dropped
store_latest(t) ==
    /\ Instr(t) = "store_latest"
    /\ latest' = task[t].packet
    /\ latest_lock' = Dropped(latest_lock, t)
    /\ task' = [task EXCEPT ![t] = Advanced(t)]
    /\ UNCHANGED response
    /\ UNCHANGED << history, history_lock, prev_current,
                    injected, appended, torn_read,
                    concurrent_inject >>
    /\ UNCHANGED notLive

\* hist.push(packet), the drain of the overflow, and the guard is dropped
push_history(t) ==
    /\ Instr(t) = "push_history"
    /\ history' = push_capped(history, Unwrap(task[t].packet))
    /\ appended' = Append(appended, Unwrap(task[t].packet))
    /\ history_lock' = Dropped(history_lock, t)
    /\ task' = [task EXCEPT ![t] = Advanced(t)]
    /\ UNCHANGED response
    /\ UNCHANGED << latest, latest_lock, prev_current,
                    injected, torn_read,
                    concurrent_inject >>
    /\ UNCHANGED notLive

\* current reads the latest slot: 200 with the packet, or 204
load_latest(t) ==
    /\ Instr(t) = "load_latest"
    /\ response' = [response EXCEPT ![t] = current_response(latest)]
    /\ prev_current' = [prev_current EXCEPT ![t] = latest]
    /\ latest_lock' = Dropped(latest_lock, t)
    /\ task' = [task EXCEPT ![t] = Advanced(t)]
    /\ UNCHANGED << latest, history, history_lock, injected,
                    appended, torn_read,
                    concurrent_inject >>
    /\ UNCHANGED notLive

\* history copies the slice of the last `limit` packets: 200 with the array
load_history(t) ==
    /\ Instr(t) = "load_history"
    /\ response' = [response EXCEPT ![t] =
                      history_response(history, task[t].limit)]
    /\ torn_read' = [torn_read EXCEPT ![t] =
                       /\ IsSome(prev_current[t])
                       /\ task[t].limit # Some(0)
                       /\ Unwrap(prev_current[t]) \notin
                              Range(history_slice(history, task[t].limit))
                       /\ Unwrap(prev_current[t]) \notin Range(appended)]
    /\ history_lock' = Dropped(history_lock, t)
    /\ task' = [task EXCEPT ![t] = Advanced(t)]
    /\ UNCHANGED << latest, history, latest_lock, prev_current, injected,
                    appended,
                    concurrent_inject >>
    /\ UNCHANGED notLive

\* the limit parameters GET /api/v1/history is called with: absent, 0, the
\* cap, and one more than the cap
LimitValues == {None, Some(0), Some(HISTORY_CAP), Some(HISTORY_CAP + 1)}

LiveNext ==
    \/ \E t \in IngestTasks : call_inject_packet(t)
    \/ \E t \in ReaderTasks : call_current(t)
    \/ \E t \in ReaderTasks, limit \in LimitValues : call_history(t, limit)
    \/ \E t \in Tasks : lock_latest(t)
    \/ \E t \in Tasks : store_latest(t)
    \/ \E t \in Tasks : lock_history(t)
    \/ \E t \in Tasks : push_history(t)
    \/ \E t \in Tasks : load_latest(t)
    \/ \E t \in Tasks : load_history(t)

(***************************************************************************)
(* weex-ingest: the station drivers (trait StationDriver), one instance of *)
(* each variant, called by one owner (&mut self), one call at a time.      *)
(***************************************************************************)
Ok(value) == [ok |-> TRUE, err |-> "", value |-> value]
Err(kind) == [ok |-> FALSE, err |-> kind, value |-> None]

\* SimulatorDriver::new(interval)
SimulatorDriver_new(interval) == [interval |-> interval, active |-> FALSE]

\* InterceptorUdpDriver::new(bind)
InterceptorUdpDriver_new == [socket |-> None, active |-> FALSE]

\* SimulatorDriver::generate_packet at wall-clock second `now`; a Float
\* payload is the exact fraction the f64 expression stands for
generate_packet(self, now) ==
    LET tenths == (now % 100) - 50      \* variation, in tenths
    IN [date_time |-> now,
        station |-> Some("simulator"),
        interval |-> Some(self.interval),
        observations |->
            ("outTemp" :> Float(Frac(200 + tenths, 10))
             @@ "outHumidity" :> Float(Frac(650 + tenths, 10))
             @@ "barometer" :> Float(Frac(101325 + 20 * tenths, 100))
             @@ "windSpeed" :> Float(Frac(50 + Abs(tenths), 10))
             @@ "windDir" :> Float(Frac(now % 360, 1))
             @@ "rain" :> Float(Frac(0, 1)))]

\* the call is appended to the log with the driver as it was before it
Logged(driver, op, input, before, ret) ==
    Append(driver_log, [driver |-> driver, op |-> op, input |-> input,
                        before |-> before, ret |-> ret])

DriverInit ==
    /\ \E interval \in Intervals : simulator = SimulatorDriver_new(interval)
    /\ interceptor = InterceptorUdpDriver_new
    /\ driver_log = << >>

SimulatorDriver_start ==
    /\ Len(driver_log) < MaxDriverCalls
    /\ IF simulator.active
       THEN /\ driver_log' = Logged("simulator", "start", None, simulator,
                                    Err("DriverError"))
            /\ UNCHANGED simulator
       ELSE /\ simulator' = [simulator EXCEPT !.active = TRUE]
            /\ driver_log' = Logged("simulator", "start", None, simulator, Ok(None))
    /\ UNCHANGED interceptor
    /\ UNCHANGED notDriver

SimulatorDriver_stop ==
    /\ Len(driver_log) < MaxDriverCalls
    /\ IF ~simulator.active
       THEN /\ driver_log' = Logged("simulator", "stop", None, simulator,
                                    Err("DriverError"))
            /\ UNCHANGED simulator
       ELSE /\ simulator' = [simulator EXCEPT !.active = FALSE]
            /\ driver_log' = Logged("simulator", "stop", None, simulator, Ok(None))
    /\ UNCHANGED interceptor
    /\ UNCHANGED notDriver

\* `now` is the wall clock after the sleep of one interval
SimulatorDriver_get_packet(now) ==
    /\ Len(driver_log) < MaxDriverCalls
    /\ driver_log' = Logged("simulator", "get_packet", Some(now), simulator,
                            IF ~simulator.active THEN Err("DriverError")
                            ELSE Ok(Some(generate_packet(simulator, now))))
    /\ UNCHANGED << simulator, interceptor >>
    /\ UNCHANGED notDriver

SimulatorDriver_is_active ==
    /\ Len(driver_log) < MaxDriverCalls
    /\ driver_log' = Logged("simulator", "is_active", None, simulator,
                            Ok(Some(simulator.active)))
    /\ UNCHANGED << simulator, interceptor >>
    /\ UNCHANGED notDriver

\* start marking the driver active before the socket is bound
InterceptorUdpDriver_start_active_first(bind_ok, broadcast_ok) ==
    /\ Len(driver_log) < MaxDriverCalls
    /\ LET input == Some([bind_ok |-> bind_ok, broadcast_ok |-> broadcast_ok])
       IN IF interceptor.active
          THEN /\ driver_log' = Logged("interceptor", "start", input, interceptor,
                                       Err("DriverError"))
               /\ UNCHANGED interceptor
          ELSE IF ~bind_ok \/ ~broadcast_ok
          THEN /\ interceptor' = [interceptor EXCEPT !.active = TRUE]
               /\ driver_log' = Logged("interceptor", "start", input, interceptor,
                                       Err("CommunicationError"))
          ELSE /\ interceptor' = [socket |-> Some("bound"), active |-> TRUE]
               /\ driver_log' = Logged("interceptor", "start", input, interceptor,
                                       Ok(None))
    /\ UNCHANGED simulator
    /\ UNCHANGED notDriver

\* bind_ok: UdpSocket::bind succeeds; broadcast_ok: set_broadcast succeeds
InterceptorUdpDriver_start(bind_ok, broadcast_ok) ==
    /\ Len(driver_log) < MaxDriverCalls
    /\ LET input == Some([bind_ok |-> bind_ok, broadcast_ok |-> broadcast_ok])
       IN IF interceptor.active
          THEN /\ driver_log' = Logged("interceptor", "start", input, interceptor,
                                       Err("DriverError"))
               /\ UNCHANGED interceptor
          ELSE IF ~bind_ok \/ ~broadcast_ok
          THEN /\ driver_log' = Logged("interceptor", "start", input, interceptor,
                                       Err("CommunicationError"))
               /\ UNCHANGED interceptor
          ELSE /\ interceptor' = [socket |-> Some("bound"), active |-> TRUE]
               /\ driver_log' = Logged("interceptor", "start", input, interceptor,
                                       Ok(None))
    /\ UNCHANGED simulator
    /\ UNCHANGED notDriver

InterceptorUdpDriver_stop ==
    /\ Len(driver_log) < MaxDriverCalls
    /\ interceptor' = [socket |-> None, active |-> FALSE]
    /\ driver_log' = Logged("interceptor", "stop", None, interceptor, Ok(None))
    /\ UNCHANGED simulator
    /\ UNCHANGED notDriver

\* what the socket does within recv_timeout: nothing arrives, recv_from
\* fails, or a datagram (of at most the 2048 bytes of the receive buffer)
\* arrives that is the JSON of a packet or is not
Datagrams ==
    {[event |-> "timeout", packet |-> None], [event |-> "io_error", packet |-> None],
     [event |-> "garbage", packet |-> None]}
    \cup {[event |-> "json", packet |-> Some(p)] : p \in Packets}

\* get_packet giving up the socket when the receive fails
InterceptorUdpDriver_get_packet_closing(received) ==
    /\ Len(driver_log) < MaxDriverCalls
    /\ driver_log' =
         Logged("interceptor", "get_packet", Some(received), interceptor,
                CASE ~interceptor.active -> Err("DriverError")
                  [] interceptor.active /\ interceptor.socket = None ->
                         Err("DriverError")
                  [] OTHER ->
                         CASE received.event = "timeout" -> Err("Timeout")
                           [] received.event = "io_error" -> Err("Io")
                           [] received.event = "garbage" -> Err("InvalidPacket")
                           [] OTHER -> Ok(received.packet))
    /\ interceptor' = IF interceptor.active /\ received.event # "json"
                      THEN [socket |-> None, active |-> FALSE]
                      ELSE interceptor
    /\ UNCHANGED simulator
    /\ UNCHANGED notDriver

InterceptorUdpDriver_get_packet(received) ==
    /\ Len(driver_log) < MaxDriverCalls
    /\ driver_log' =
         Logged("interceptor", "get_packet", Some(received), interceptor,
                CASE ~interceptor.active -> Err("DriverError")
                  [] interceptor.active /\ interceptor.socket = None ->
                         Err("DriverError")
                  [] OTHER ->
                         CASE received.event = "timeout" -> Err("Timeout")
                           [] received.event = "io_error" -> Err("Io")  \* the `?` on the io::Error
                           [] received.event = "garbage" -> Err("InvalidPacket")
                           [] OTHER -> Ok(received.packet))
    /\ UNCHANGED << simulator, interceptor >>
    /\ UNCHANGED notDriver

InterceptorUdpDriver_is_active ==
    /\ Len(driver_log) < MaxDriverCalls
    /\ driver_log' = Logged("interceptor", "is_active", None, interceptor,
                            Ok(Some(interceptor.active)))
    /\ UNCHANGED << simulator, interceptor >>
    /\ UNCHANGED notDriver

DriverNext ==
    \/ SimulatorDriver_start
    \/ SimulatorDriver_stop
    \/ \E now \in NowValues : SimulatorDriver_get_packet(now)
    \/ SimulatorDriver_is_active
    \/ \E bind_ok \in BOOLEAN, broadcast_ok \in BOOLEAN :
           InterceptorUdpDriver_start(bind_ok, broadcast_ok)
    \/ InterceptorUdpDriver_stop
    \/ \E received \in Datagrams : InterceptorUdpDriver_get_packet(received)
    \/ InterceptorUdpDriver_is_active

\* the drivers before any call, for the specifications of the other parts
DriverUnused ==
    /\ simulator = SimulatorDriver_new(1)
    /\ interceptor = InterceptorUdpDriver_new
    /\ driver_log = << >>

(***************************************************************************)
(* weex-daemon: Scheduler and the main task that runs it.  The driver is a *)
(* Box<dyn StationDriver>: what its calls return is an input of the step.  *)
(* main selects between scheduler.run() and the shutdown signal; when the  *)
(* signal wins, the run future is dropped at the await it is at and        *)
(* scheduler.stop() is called.                                             *)
(***************************************************************************)
\* Scheduler::new, before main polls the select
Scheduler_new ==
    [running |-> FALSE, pc |-> "new", cycle |-> "none", stop_ret |-> None]

SchedulerInit ==
    /\ scheduler = Scheduler_new
    /\ scheduler_trace = << >>

\* Scheduler::run up to its first await: running is set, the loop is entered
Scheduler_run ==
    /\ scheduler.pc = "new"
    /\ scheduler' = [scheduler EXCEPT !.running = TRUE, !.pc = "get_packet"]
    /\ UNCHANGED << archiveVars, scheduler_trace >>
    /\ UNCHANGED notScheduler

\* a cycle in which driver.get_packet() fails and run returns the error
Scheduler_process_packet_err_returning ==
    /\ scheduler.pc = "get_packet"
    /\ scheduler.running
    /\ scheduler' = [scheduler EXCEPT !.cycle = "Err", !.pc = "done"]
    /\ UNCHANGED << archiveVars, scheduler_trace >>
    /\ UNCHANGED notScheduler

\* one cycle of the loop in which driver.get_packet() fails: process_packet
\* returns the error, run logs it and loops (running is still true)
Scheduler_process_packet_err ==
    /\ scheduler.pc = "get_packet"
    /\ scheduler.running
    /\ scheduler' = [scheduler EXCEPT !.cycle = "Err"]
    /\ UNCHANGED << archiveVars, scheduler_trace >>
    /\ UNCHANGED notScheduler

\* one cycle of the loop in which driver.get_packet() returns a packet:
\* process_packet hands it to aggregator.add_packet, whose result run only
\* logs; sink_ok is the outcome of the insert of a boundary flush
Scheduler_process_packet(packet, sink_ok) ==
    /\ scheduler.pc = "get_packet"
    /\ scheduler.running
    /\ Len(fed) < MaxAdds
    /\ LET r == add_packet_result(aggregator, packet, sink_ok)
       IN /\ aggregator' = r.agg
          /\ sink_log' = sink_log \o r.handed
          /\ last_call' = [op |-> "add_packet", before |-> aggregator.buffer,
                           ret |-> r.ret, handed |-> Len(r.handed)]
          /\ fed' = Append(fed, [packet |-> packet, ret |-> r.ret])
          /\ scheduler' = [scheduler EXCEPT
                              !.cycle = IF r.ret = "Ok" THEN "Ok" ELSE "Err"]
    /\ UNCHANGED << n_flushes, scheduler_trace >>
    /\ UNCHANGED notScheduler

\* the shutdown signal wins the select: the run future is dropped (before
\* its first poll, or at the get_packet await) and stop is entered
shutdown ==
    /\ scheduler.pc \in {"new", "get_packet"}
    /\ scheduler' = [scheduler EXCEPT !.pc = "stop"]
    /\ UNCHANGED << archiveVars, scheduler_trace >>
    /\ UNCHANGED notScheduler

\* Scheduler::stop returning the driver's error (`?`) instead of logging it
Scheduler_stop_driver_propagating(driver_ok) ==
    /\ scheduler.pc = "stop"
    /\ scheduler' = IF driver_ok
                    THEN [scheduler EXCEPT !.running = FALSE, !.pc = "force_flush"]
                    ELSE [scheduler EXCEPT !.running = FALSE, !.pc = "done",
                                           !.stop_ret = Some("Err")]
    /\ scheduler_trace' = Append(scheduler_trace,
                                 [call |-> "driver.stop", ok |-> driver_ok])
    /\ UNCHANGED archiveVars
    /\ UNCHANGED notScheduler

\* Scheduler::stop, lines 73-78: running is cleared and the driver stopped;
\* driver_ok is what driver.stop() returns (an error is only logged)
Scheduler_stop_driver(driver_ok) ==
    /\ scheduler.pc = "stop"
    /\ scheduler' = [scheduler EXCEPT !.running = FALSE, !.pc = "force_flush"]
    /\ scheduler_trace' = Append(scheduler_trace,
                                 [call |-> "driver.stop", ok |-> driver_ok])
    /\ UNCHANGED archiveVars
    /\ UNCHANGED notScheduler

\* Scheduler::stop, lines 81-83: the aggregator is force-flushed (an error
\* is only logged)
Scheduler_stop_flush(now, sink_ok) ==
    /\ scheduler.pc = "force_flush"
    /\ LET r == force_flush_result(aggregator, now, sink_ok)
       IN /\ aggregator' = r.agg
          /\ sink_log' = sink_log \o r.handed
          /\ last_call' = [op |-> "force_flush", before |-> aggregator.buffer,
                           ret |-> r.ret, handed |-> Len(r.handed)]
          /\ scheduler_trace' = Append(scheduler_trace,
                                       [call |-> "aggregator.force_flush",
                                        ok |-> r.ret = "Ok"])
    /\ n_flushes' = n_flushes + 1
    /\ scheduler' = [scheduler EXCEPT !.pc = "return"]
    /\ UNCHANGED fed
    /\ UNCHANGED notScheduler

\* Scheduler::stop, line 86: Ok(())
Scheduler_stop_return ==
    /\ scheduler.pc = "return"
    /\ scheduler' = [scheduler EXCEPT !.pc = "done", !.stop_ret = Some("Ok")]
    /\ UNCHANGED << archiveVars, scheduler_trace >>
    /\ UNCHANGED notScheduler

SchedulerNext ==
    \/ Scheduler_run
    \/ Scheduler_process_packet_err
    \/ \E packet \in Packets, sink_ok \in BOOLEAN :
           Scheduler_process_packet(packet, sink_ok)
    \/ shutdown
    \/ \E driver_ok \in BOOLEAN : Scheduler_stop_driver(driver_ok)
    \/ \E now \in NowValues, sink_ok \in BOOLEAN : Scheduler_stop_flush(now, sink_ok)
    \/ Scheduler_stop_return

\* the scheduler before main polls it, for the specifications of the other parts
SchedulerUnused == SchedulerInit

(***************************************************************************)
(* weewx-cli: readiness, health and the HTTP intake handlers.              *)
(* The requests are served one at a time: each handler runs from its       *)
(* first statement to its response before the next request is served.      *)
(***************************************************************************)
\* number of HTTP requests served in a run
MaxRequests == 2

\* the names a request's parameters take: the vocabulary of the uploads and
\* a name outside it
ParamNames ==
    {"dateutc", "stationtype", "tempf", "humidity", "baromin", "baromabsin",
     "baromrelin", "windspeedmph", "windgustmph", "winddir", "rainin",
     "dailyrainin", "solarradiation", "uv", "PASSKEY"}

\* HashMap<String, String>: the parameters of a request, None where the
\* request has no parameter of that name
NoParams == [k \in ParamNames |-> None]
With(q, k, text) == [q EXCEPT ![k] = Some(text)]

\* str::parse::<f64> on the texts of the model: an integer literal and a
\* decimal literal parse, anything else does not
str_parse_f64(text) ==
    CASE text = "55" -> Some(Frac(55, 1))
      [] text = "45.5" -> Some(Frac(455, 10))
      [] OTHER -> None

\* str::parse::<i64> on the texts of the model: only an integer literal parses
str_parse_i64(text) ==
    CASE text = "55" -> Some(55)
      [] OTHER -> None

\* the closures parse_f64 and parse_i64 of the intake handlers
parse_f64(q, k) == IF q[k] = None THEN None ELSE str_parse_f64(Unwrap(q[k]))
parse_i64(q, k) == IF q[k] = None THEN None ELSE str_parse_i64(Unwrap(q[k]))

\* NaiveDateTime::parse_from_str(s, "%Y-%m-%d %H:%M:%S") followed by the
\* conversion to a UTC timestamp, on the texts of the model
parse_from_str(text) ==
    CASE text = "1970-01-01 00:00:03" -> Some(3)
      [] OTHER -> None

\* the date_time the intake handlers compute from dateutc and the clock
upload_date_time(q, now) ==
    IF q["dateutc"] = None \/ q["dateutc"] = Some("now")
    THEN now
    ELSE LET parsed == parse_from_str(Unwrap(q["dateutc"]))
         IN IF parsed = None THEN now ELSE Unwrap(parsed)

\* the unit conversions of the intake handlers, on exact fractions
FracSub(x, k) == Frac(x.n - k * x.d, x.d)
FracMul(x, n, d) == Frac(x.n * n, x.d * d)
\* (tf - 32.0) * (5.0 / 9.0)
f_to_c(tf) == FracMul(FracSub(tf, 32), 5, 9)
\* inhg * 33.8638866667: the product is kept as its two factors
inhg_to_hpa(inhg) == [n |-> inhg.n, d |-> inhg.d, times |-> "33.8638866667"]
\* mph * 0.44704
mph_to_mps(mph) == FracMul(mph, 44704, 100000)
\* inches * 25.4
in_to_mm(inches) == FracMul(inches, 254, 10)

\* HashMap::insert
insert(map, k, value) ==
    [x \in (DOMAIN map) \cup {k} |-> IF x = k THEN value ELSE map[x]]

\* one `if let Some(..) = parse(..) { obs.insert(..) }` statement of an
\* intake handler: the parameter read, how it is parsed, the conversion
\* applied and the key inserted
Statement(param, parse, convert, key) ==
    [param |-> param, parse |-> parse, convert |-> convert, key |-> key]

run_statement(obs, q, st) ==
    IF st.parse = "i64"
    THEN LET parsed == parse_i64(q, st.param)
         IN IF parsed = None THEN obs
            ELSE insert(obs, st.key, Integer(Unwrap(parsed)))
    ELSE LET parsed == parse_f64(q, st.param)
         IN IF parsed = None THEN obs
            ELSE LET x == Unwrap(parsed)
                     value == CASE st.convert = "f_to_c" -> f_to_c(x)
                                [] st.convert = "inhg_to_hpa" -> inhg_to_hpa(x)
                                [] st.convert = "mph_to_mps" -> mph_to_mps(x)
                                [] st.convert = "in_to_mm" -> in_to_mm(x)
                                [] OTHER -> x
                 IN insert(obs, st.key, Float(value))

RECURSIVE run_statements(_, _, _)
run_statements(obs, q, sts) ==
    IF sts = << >> THEN obs
    ELSE run_statements(run_statement(obs, q, Head(sts)), q, Tail(sts))

\* the statements of ingest_ecowitt, in the order of the code
ingest_ecowitt_statements ==
    << Statement("tempf", "f64", "f_to_c", "outTemp"),
       Statement("humidity", "i64", "none", "humidity"),
       Statement("baromin", "f64", "inhg_to_hpa", "barometer"),
       Statement("windspeedmph", "f64", "mph_to_mps", "windSpeed"),
       Statement("windgustmph", "f64", "mph_to_mps", "windGust"),
       Statement("winddir", "i64", "none", "windDir"),
       Statement("rainin", "f64", "in_to_mm", "rainRate"),
       Statement("dailyrainin", "f64", "in_to_mm", "dailyRain"),
       Statement("solarradiation", "f64", "none", "radiation"),
       Statement("uv", "f64", "none", "uv") >>

\* the statements of ingest_post, in the order of the code
ingest_post_statements ==
    << Statement("tempf", "f64", "f_to_c", "outTemp"),
       Statement("humidity", "i64", "none", "humidity"),
       Statement("baromin", "f64", "inhg_to_hpa", "barometer"),
       Statement("baromabsin", "f64", "inhg_to_hpa", "barometerAbs"),
       Statement("baromrelin", "f64", "inhg_to_hpa", "barometer"),
       Statement("windspeedmph", "f64", "mph_to_mps", "windSpeed"),
       Statement("windgustmph", "f64", "mph_to_mps", "windGust"),
       Statement("winddir", "i64", "none", "windDir"),
       Statement("rainin", "f64", "in_to_mm", "rainRate"),
       Statement("dailyrainin", "f64", "in_to_mm", "dailyRain"),
       Statement("solarradiation", "f64", "none", "radiation"),
       Statement("uv", "f64", "none", "uv") >>

\* the WeatherPacket an intake handler builds
upload_packet(q, now, statements) ==
    [date_time |-> upload_date_time(q, now),
     station |-> q["stationtype"],
     interval |-> None,
     observations |-> run_statements(<< >>, q, statements)]

ingest_ecowitt_packet(q, now) == upload_packet(q, now, ingest_ecowitt_statements)
ingest_post_packet(q, now) == upload_packet(q, now, ingest_post_statements)

\* the uploads of the model: a request without parameters; every numeric
\* parameter alone with a value that parses; values that do not parse as
\* the parameter's type; two parameters of one canonical key; the forms of
\* dateutc; a parameter outside the vocabulary
Station == With(With(NoParams, "stationtype", "GW1100"),
                "dateutc", "1970-01-01 00:00:03")
Uploads ==
    { NoParams,
      With(NoParams, "dateutc", "now"),
      With(With(NoParams, "dateutc", "yesterday"), "humidity", "55"),
      With(Station, "PASSKEY", "55"),
      With(Station, "tempf", "45.5"),
      With(Station, "humidity", "45.5"),
      With(With(With(Station, "tempf", "abc"), "winddir", "abc"), "uv", "abc"),
      With(Station, "baromin", "55"),
      With(Station, "baromabsin", "45.5"),
      With(Station, "baromrelin", "45.5"),
      With(With(Station, "baromin", "55"), "baromrelin", "45.5"),
      With(With(With(Station, "windspeedmph", "45.5"), "windgustmph", "55"),
           "winddir", "55"),
      With(With(Station, "rainin", "45.5"), "dailyrainin", "55"),
      With(With(Station, "solarradiation", "55"), "uv", "45.5") }

\* the routes of ingest_post
PostRoutes == {"POST /ingest/ecowitt", "POST /data"}

\* the record of a request served after the request `last`: its number, the
\* route, the parameters, the response, and the route and status of the
\* request before it
Served(last, route, q, status, body) ==
    [seq |-> last.seq + 1, route |-> route, q |-> q,
     status |-> status, body |-> body,
     prev |-> [route |-> last.route, status |-> last.status]]

\* no request served yet
NoRequest ==
    [seq |-> 0, route |-> "none", q |-> NoParams,
     status |-> 0, body |-> "none",
     prev |-> [route |-> "none", status |-> 0]]

\* AppState as build_app returns it (with LiveInit for latest and history)
ApiInit ==
    /\ ready = FALSE
    /\ requests_total = 0
    /\ api_last = NoRequest

\* set_ready(state, is_ready)
set_ready(is_ready) ==
    /\ ready' = is_ready
    /\ UNCHANGED << requests_total, api_last, latest, history >>
    /\ UNCHANGED notApi

\* GET /healthz
healthz ==
    /\ api_last.seq < MaxRequests
    /\ requests_total' = requests_total + 1
    /\ api_last' = Served(api_last, "GET /healthz", NoParams, 200, "none")
    /\ UNCHANGED << ready, latest, history >>
    /\ UNCHANGED notApi

\* a readyz that does not look at the flag
readyz_status_always_ok(flag) == 200

\* the status readyz returns
readyz_status(flag) == IF flag THEN 200 ELSE 503

\* GET /readyz
readyz ==
    /\ api_last.seq < MaxRequests
    /\ api_last' = Served(api_last, "GET /readyz", NoParams,
                          readyz_status(ready), "none")
    /\ UNCHANGED << ready, requests_total, latest, history >>
    /\ UNCHANGED notApi

\* inject_packet when no other task touches the live state: what
\* store_latest and push_history do, one after the other
inject_packet(packet) ==
    /\ latest' = Some(packet)
    /\ history' = push_capped(history, packet)

\* GET /ingest/ecowitt?q
ingest_ecowitt(q, now) ==
    /\ api_last.seq < MaxRequests
    /\ requests_total' = requests_total + 1
    /\ inject_packet(ingest_ecowitt_packet(q, now))
    /\ api_last' = Served(api_last, "GET /ingest/ecowitt", q,
                          200, "{status:ok}")
    /\ UNCHANGED ready
    /\ UNCHANGED notApi

\* POST /ingest/ecowitt and POST /data, with the form q
ingest_post(route, q, now) ==
    /\ api_last.seq < MaxRequests
    /\ requests_total' = requests_total + 1
    /\ inject_packet(ingest_post_packet(q, now))
    /\ api_last' = Served(api_last, route, q, 200, "{status:ok}")
    /\ UNCHANGED ready
    /\ UNCHANGED notApi

ApiNext ==
    \/ \E is_ready \in BOOLEAN : set_ready(is_ready)
    \/ healthz
    \/ readyz
    \/ \E q \in Uploads, now \in NowValues : ingest_ecowitt(q, now)
    \/ \E route \in PostRoutes, q \in Uploads, now \in NowValues :
          ingest_post(route, q, now)

\* AppState before any request, for the specifications of the other parts
ApiUnused == ApiInit

(***************************************************************************)
(* weewx-cli and weex-core: the wire JSON of a WeatherPacket, and the UDP  *)
(* ingest task of start_interceptor_ingest with the filesystem sink.       *)
(* A JSON object is a function from its keys to tokens; a token records    *)
(* how serde_json writes the value: a number with a fraction ("float"), a  *)
(* number without ("int"), a string, or null.  The observation keys of     *)
(* the model differ from the field names dateTime, station and interval.   *)
(***************************************************************************)
\* number of datagrams the sender sends in a run
MaxSends == 2

\* UdpSocket::bind(bind) followed by local_addr: for port 0 the system
\* assigns an ephemeral port
local_addr(bind) == IF bind = "127.0.0.1:0" THEN "127.0.0.1:49152" ELSE bind

\* serde_json::to_vec of a WeatherPacket: dateTime, station and interval
\* unless None, and the observations flattened into the same object, each
\* ObservationValue (untagged) as its payload alone.  The bytes of a
\* datagram, a sink line or a response body are the JSON object they are
\* the text of (json), or are not JSON
to_json(packet) ==
    LET fields == {"dateTime"}
                  \cup (IF packet.station = None THEN {} ELSE {"station"})
                  \cup (IF packet.interval = None THEN {} ELSE {"interval"})
        serialize_value(value) ==
            CASE value.tag = "Float" -> [t |-> "float", v |-> value.v]
              [] value.tag = "Integer" -> [t |-> "int", v |-> value.v]
              [] value.tag = "String" -> [t |-> "string", v |-> value.v]
              [] OTHER -> [t |-> "null", v |-> 0]
    IN [json |-> TRUE,
        object |->
          [k \in fields \cup DOMAIN packet.observations |->
             CASE k = "dateTime" -> [t |-> "int", v |-> packet.date_time]
               [] k = "station" /\ k \in fields ->
                      [t |-> "string", v |-> Unwrap(packet.station)]
               [] k = "interval" /\ k \in fields ->
                      [t |-> "int", v |-> Unwrap(packet.interval)]
               [] OTHER -> serialize_value(packet.observations[k])]]

\* serde_json::from_slice::<WeatherPacket>; an ObservationValue (untagged)
\* is the first variant, in the order Float, Integer, String, Null, that
\* accepts the token, and f64 accepts every JSON number
from_slice(bytes) ==
    IF ~bytes.json THEN Err("InvalidPacket")
    ELSE LET o == bytes.object
             absent(k) == k \notin DOMAIN o \/ o[k].t = "null"
             deserialize_value(token) ==
                 CASE token.t = "float" -> Float(token.v)
                   [] token.t = "int" -> Float(Frac(token.v, 1))
                   [] token.t = "string" -> String(token.v)
                   [] OTHER -> Null
         IN IF \/ "dateTime" \notin DOMAIN o
               \/ o["dateTime"].t # "int"
               \/ ~absent("station") /\ o["station"].t # "string"
               \/ ~absent("interval") /\ o["interval"].t # "int"
            THEN Err("InvalidPacket")
            ELSE Ok([date_time |-> o["dateTime"].v,
                     station |-> IF absent("station") THEN None
                                 ELSE Some(o["station"].v),
                     interval |-> IF absent("interval") THEN None
                                  ELSE Some(o["interval"].v),
                     observations |->
                         [k \in DOMAIN o \ {"dateTime", "station", "interval"} |->
                             deserialize_value(o[k])]])

\* the canonical packets the sender serializes: the four variants of an
\* observation value, a float without fraction, station and interval
\* present and absent, an empty observation map
WirePackets ==
    { [date_time |-> 1700000001, station |-> Some("gw1100"), interval |-> Some(5),
       observations |-> ("outTemp" :> Float(Frac(43, 2)))],
      [date_time |-> 1700000002, station |-> None, interval |-> None,
       observations |-> ("outTemp" :> Float(Frac(20, 1))
                         @@ "note" :> String("calm") @@ "rain" :> Null)],
      [date_time |-> 1700000003, station |-> Some("gw1100"), interval |-> None,
       observations |-> ("windDir" :> Integer(180))],
      [date_time |-> 1700000004, station |-> None, interval |-> Some(5),
       observations |-> << >>] }

\* before start_interceptor_ingest is called
IngestInit ==
    /\ ingest = [pc |-> "new", bind |-> "none", returned |-> None,
                 fs_sink |-> FALSE, pkt |-> None]
    /\ wire = << >>
    /\ emitted = << >>
    /\ client = [sent |-> << >>,
                 read |-> [status |-> 0, body |-> [json |-> FALSE, object |-> << >>]]]

\* start_interceptor_ingest(state, bind, fs_dir) up to its return and the
\* task's first get_packet: InterceptorUdpDriver::new(bind), driver.start(),
\* the address sent back, FsSink::new.
\* bind_ok: UdpSocket::bind succeeds; broadcast_ok: set_broadcast succeeds;
\* fs_sink: fs_dir is given and FsSink::new succeeds
start_interceptor_ingest(bind, bind_ok, broadcast_ok, fs_sink) ==
    /\ ingest.pc = "new"
    /\ IF ~bind_ok \/ ~broadcast_ok
       THEN /\ ingest' = [ingest EXCEPT !.pc = "returned", !.bind = bind,
                              !.returned = Some(Err("CommunicationError"))]
            /\ interceptor' = InterceptorUdpDriver_new
       ELSE /\ ingest' = [ingest EXCEPT !.pc = "get_packet", !.bind = bind,
                              !.returned = Some(Ok(bind)),
                              !.fs_sink = fs_sink]
            /\ interceptor' = [socket |-> Some(local_addr(bind)), active |-> TRUE]
    /\ UNCHANGED << wire, emitted, client, latest, history >>
    /\ UNCHANGED notIngest

\* the sender: sock.send_to(bytes, local) with the address
\* start_interceptor_ingest returned; the datagram reaches the receive
\* queue of the socket bound to that address, if there is one
send_to(bytes) ==
    /\ Len(client.sent) < MaxSends
    /\ ingest.returned # None
    /\ Unwrap(ingest.returned).ok
    /\ LET dest == Unwrap(ingest.returned).value
       IN /\ client' = [client EXCEPT !.sent = Append(@, [dest |-> dest,
                                                          bytes |-> bytes])]
          /\ wire' = IF interceptor.socket = Some(dest)
                     THEN Append(wire, bytes) ELSE wire
    /\ UNCHANGED << ingest, emitted, interceptor, latest, history >>
    /\ UNCHANGED notIngest

\* one turn of the task's loop up to the sink: driver.get_packet() on the
\* next datagram (a turn without datagram times out and changes nothing),
\* and inject_packet on Ok
ingest_get_packet ==
    /\ ingest.pc = "get_packet"
    /\ wire # << >>
    /\ LET r == from_slice(Head(wire))
       IN IF r.ok
          THEN /\ latest' = Some(r.value)
               /\ history' = push_capped(history, r.value)
               /\ ingest' = [ingest EXCEPT
                                !.pc = IF ingest.fs_sink THEN "emit" ELSE "get_packet",
                                !.pkt = IF ingest.fs_sink THEN Some(r.value) ELSE None]
          ELSE UNCHANGED << latest, history, ingest >>
    /\ wire' = Tail(wire)
    /\ UNCHANGED << emitted, client, interceptor >>
    /\ UNCHANGED notIngest

\* the rest of the turn with the task returning when the emit fails
ingest_emit_returning_on_failure(emit_ok) ==
    /\ ingest.pc = "emit"
    /\ emitted' = Append(emitted, [line |-> to_json(Unwrap(ingest.pkt)),
                                   ok |-> emit_ok])
    /\ ingest' = [ingest EXCEPT !.pc = IF emit_ok THEN "get_packet"
                                       ELSE "returned",
                                !.pkt = None]
    /\ UNCHANGED << wire, client, interceptor, latest, history >>
    /\ UNCHANGED notIngest

\* the rest of the turn: sink.emit(&pkt), its result dropped.
\* emit_ok: the line is written to packets.jsonl
ingest_emit(emit_ok) ==
    /\ ingest.pc = "emit"
    /\ emitted' = Append(emitted, [line |-> to_json(Unwrap(ingest.pkt)),
                                   ok |-> emit_ok])
    /\ ingest' = [ingest EXCEPT !.pc = "get_packet", !.pkt = None]
    /\ UNCHANGED << wire, client, interceptor, latest, history >>
    /\ UNCHANGED notIngest

\* the reader: GET /api/v1/current, answered by `current` with the JSON of
\* the packet in latest or with 204
read_current ==
    /\ client' = [client EXCEPT !.read =
                     IF latest = None
                     THEN [status |-> 204, body |-> [json |-> FALSE, object |-> << >>]]
                     ELSE [status |-> 200, body |-> to_json(Unwrap(latest))]]
    /\ UNCHANGED << ingest, wire, emitted, interceptor, latest, history >>
    /\ UNCHANGED notIngest

\* the ingest task with its datagram sender, an HTTP uploader and a reader
IngestNext ==
    \/ \E bind \in {"127.0.0.1:0", "127.0.0.1:9000"}, bind_ok \in BOOLEAN, broadcast_ok \in BOOLEAN,
          fs_sink \in BOOLEAN :
           start_interceptor_ingest(bind, bind_ok, broadcast_ok, fs_sink)
    \/ \E bytes \in {to_json(p) : p \in WirePackets}
                      \cup {[json |-> FALSE, object |-> << >>]} : send_to(bytes)
    \/ ingest_get_packet
    \/ \E emit_ok \in BOOLEAN : ingest_emit(emit_ok)
    \/ read_current
    \/ \E now \in NowValues : ingest_ecowitt(With(Station, "tempf", "45.5"), now)

(***************************************************************************)
(* weex-archive and weex-core called on their own: a PacketBuffer under    *)
(* add and drain, and the free functions                                   *)
(***************************************************************************)
\* before any call
CoreInit ==
    /\ packet_buffer = PacketBuffer_new(1)
    /\ call = [fn |-> "none", args |-> << >>, before |-> PacketBuffer_new(1),
               ret |-> << >>]

\* PacketBuffer::new, called once before the first add
buffer_new(interval) ==
    /\ call.fn = "none"
    /\ packet_buffer' = PacketBuffer_new(interval)
    /\ call' = [fn |-> "new", args |-> << interval >>, before |-> packet_buffer,
                ret |-> << >>]
    /\ UNCHANGED << archiveVars, liveVars, driverVars, schedulerVars, apiVars,
                    ingestVars >>

\* PacketBuffer::add; ret is the value returned: err is "" for Ok, and ok
\* is the Option inside Ok
buffer_add(packet) ==
    /\ call.fn # "none"
    /\ LET r == PacketBuffer_add(packet_buffer, packet)
       IN /\ packet_buffer' = r.buf
          /\ call' = [fn |-> "add", args |-> << packet >>,
                      before |-> packet_buffer,
                      ret |-> [err |-> r.err, ok |-> r.ok]]
    /\ UNCHANGED << archiveVars, liveVars, driverVars, schedulerVars, apiVars,
                    ingestVars >>

\* PacketBuffer::drain; ret is the vector returned
buffer_drain ==
    /\ call.fn # "none"
    /\ LET r == PacketBuffer_drain(packet_buffer)
       IN /\ packet_buffer' = r.buf
          /\ call' = [fn |-> "drain", args |-> << >>, before |-> packet_buffer,
                      ret |-> r.packets]
    /\ UNCHANGED << archiveVars, liveVars, driverVars, schedulerVars, apiVars,
                    ingestVars >>

\* PacketBuffer::calculate_interval_end on an i64 timestamp.  The sum and
\* the product are i64 operations: when the result does not fit, a build
\* with overflow checks panics (ret is None) and a build without them
\* returns the wrapped value.
buffer_calculate_interval_end(timestamp, overflow_checks) ==
    /\ call.fn # "none"
    /\ LET exact == calculate_interval_end(packet_buffer.interval, timestamp)
           wrapped == IF exact > I64_MAX THEN exact - 2 * (I64_MAX + 1)
                      ELSE exact
       IN call' = [fn |-> "calculate_interval_end", args |-> << timestamp >>,
                   before |-> packet_buffer,
                   ret |-> IF exact > I64_MAX /\ overflow_checks THEN None
                           ELSE Some(wrapped)]
    /\ UNCHANGED packet_buffer
    /\ UNCHANGED << archiveVars, liveVars, driverVars, schedulerVars, apiVars,
                    ingestVars >>

BufferNext ==
    \/ \E interval \in Intervals : buffer_new(interval)
    \/ \E packet \in Packets : buffer_add(packet)
    \/ buffer_drain
    \/ \E timestamp \in 0..I64_MAX, overflow_checks \in BOOLEAN :
           buffer_calculate_interval_end(timestamp, overflow_checks)

\* the packets aggregate_packets is called on: the three packets of the
\* rollup example, and two packets that carry every other key of the
\* default table, a key outside it, and String and Null values
RollupPackets ==
    {Packet(1, "rain" :> Float(1) @@ "outTemp" :> Float(10)
               @@ "windGust" :> Float(5) @@ "windDir" :> Integer(90)
               @@ "extraTemp9" :> Float(6)),
     Packet(2, "rain" :> Float(2) @@ "outTemp" :> Float(20)
               @@ "windGust" :> Float(15) @@ "windDir" :> Integer(20)
               @@ "extraTemp9" :> Float(2)),
     Packet(3, "rain" :> Float(3) @@ "outTemp" :> Float(30)
               @@ "windGust" :> Float(10) @@ "windDir" :> Null
               @@ "extraTemp9" :> Float(5) @@ "note" :> String(1)),
     Packet(4, [k \in {"inTemp", "dewpoint", "heatindex", "windchill",
                       "barometer", "pressure", "altimeter", "windSpeed",
                       "inHumidity", "radiation", "UV"} |-> Float(2)]
               @@ "outHumidity" :> Integer(2) @@ "windGustDir" :> Integer(6)
               @@ "note" :> Null @@ "outTemp" :> Null),
     Packet(5, [k \in {"inTemp", "dewpoint", "heatindex", "windchill",
                       "barometer", "pressure", "altimeter", "windSpeed",
                       "inHumidity", "radiation", "UV"} |-> Float(6)]
               @@ "outHumidity" :> Integer(6) @@ "windGustDir" :> Integer(2)
               @@ "windDir" :> String(2) @@ "outTemp" :> String(3))}

\* aggregate_packets on a slice of packets; ret is the map returned.  The
\* function keeps no state between calls, so a run makes one call.
call_aggregate_packets(packets) ==
    /\ call.fn = "none"
    /\ call' = [fn |-> "aggregate_packets", args |-> packets,
                before |-> packet_buffer, ret |-> aggregate_packets(packets)]
    /\ UNCHANGED packet_buffer
    /\ UNCHANGED << archiveVars, liveVars, driverVars, schedulerVars, apiVars,
                    ingestVars >>

RollupsNext ==
    \/ \E n \in 0..MaxSlice : \E packets \in [1..n -> RollupPackets] :
           call_aggregate_packets(packets)

\* the live state before any call, for the specifications of the other parts
LiveUnused == LiveInit

\* the interval aggregator fed by one packet source
InitArchive ==
    /\ ArchiveInit /\ LiveUnused /\ DriverUnused /\ SchedulerUnused /\ ApiUnused
    /\ IngestInit /\ CoreInit
SpecArchive == InitArchive /\ [][ArchiveNext]_vars
\* the interval aggregator fed packets of any i64 timestamp
SpecArchiveSigned == InitArchive /\ [][SignedNext]_vars

\* the live state shared by the UDP ingest task and the HTTP handlers
InitLive ==
    /\ LiveInit /\ ArchiveUnused /\ DriverUnused /\ SchedulerUnused /\ ApiUnused
    /\ IngestInit /\ CoreInit
SpecLive == InitLive /\ [][LiveNext]_vars

\* the same under the scheduling the runtime gives: a task that can run its
\* next step runs it (tokio polls every ready task), and a task waiting for a
\* mutex that is released again and again gets it (tokio's Mutex is FIFO)
LiveFairness ==
    \A t \in Tasks :
        /\ WF_vars(store_latest(t) \/ push_history(t)
                      \/ load_latest(t) \/ load_history(t))
        /\ SF_vars(lock_latest(t))
        /\ SF_vars(lock_history(t))
SpecLiveFair == InitLive /\ [][LiveNext]_vars /\ LiveFairness

\* the two station drivers, each called by its owner
InitDriver ==
    /\ DriverInit /\ ArchiveUnused /\ LiveUnused /\ SchedulerUnused /\ ApiUnused
    /\ IngestInit /\ CoreInit
SpecDriver == InitDriver /\ [][DriverNext]_vars

\* the daemon: the scheduler with its aggregator, from Scheduler::new to
\* the return of Scheduler::stop
InitScheduler ==
    /\ SchedulerInit /\ ArchiveInit /\ LiveUnused /\ DriverUnused /\ ApiUnused
    /\ IngestInit /\ CoreInit
SpecScheduler == InitScheduler /\ [][SchedulerNext]_vars

\* the HTTP server: build_app, then set_ready and requests served one at a
\* time
InitApi ==
    /\ ApiInit /\ LiveInit /\ ArchiveUnused /\ DriverUnused /\ SchedulerUnused
    /\ IngestInit /\ CoreInit
SpecApi == InitApi /\ [][ApiNext]_vars

\* the UDP ingest task started on the AppState of build_app, with a
\* datagram sender, an HTTP uploader and a reader of /api/v1/current
InitIngest ==
    /\ IngestInit /\ ApiInit /\ LiveInit /\ ArchiveUnused /\ DriverUnused
    /\ SchedulerUnused /\ CoreInit
SpecIngest == InitIngest /\ [][IngestNext]_vars

\* the two packet loops side by side: Scheduler::run fed by its driver, and
\* the UDP ingest task fed by a datagram sender
LoopsNext ==
    \/ Scheduler_run
    \/ Scheduler_process_packet_err
    \/ \E packet \in {p \in Packets : p.date_time \in {0, MaxTime}},
          sink_ok \in BOOLEAN :
           Scheduler_process_packet(packet, sink_ok)
    \/ start_interceptor_ingest("127.0.0.1:9000", TRUE, TRUE, FALSE)
    \/ \E bytes \in {to_json(p) : p \in {q \in WirePackets :
                                              q.date_time = 1700000001}}
                      \cup {[json |-> FALSE, object |-> << >>]} : send_to(bytes)
    \/ ingest_get_packet
SpecLoops == InitIngest /\ [][LoopsNext]_vars

\* a PacketBuffer, and the free functions, called on their own
InitCore ==
    /\ CoreInit /\ ArchiveUnused /\ LiveUnused /\ DriverUnused
    /\ SchedulerUnused /\ ApiUnused /\ IngestInit
SpecBuffer == InitCore /\ [][BufferNext]_vars
SpecRollups == InitCore /\ [][RollupsNext]_vars

(***************************************************************************)
(* Claims on the interval aggregator                                       *)
(***************************************************************************)
FedTime(i) == fed[i].packet.date_time
RowTime(i) == sink_log[i].row.date_time
I == aggregator.interval

\* the last call was an add_packet whose packet lies beyond the interval end
\* that was current before the call (the buffer had room for it and the sink
\* took the record)
LastAddCrossed ==
    /\ last_call.op = "add_packet"
    /\ last_call.ret = "Ok"
    /\ IsSome(last_call.before.current_interval_end)
    /\ FedTime(Len(fed)) > Unwrap(last_call.before.current_interval_end)

\* C1: when add_packet receives a packet that crosses the current interval
\* end, the record it emits carries the previous interval end, is aggregated
\* over only the packets buffered before that packet, and the crossing
\* packet is the one packet in the buffer after the flush.
C1_CrossingPacketStaysBuffered ==
    LastAddCrossed =>
        /\ last_call.handed = 1
        /\ RowTime(Len(sink_log)) = Unwrap(last_call.before.current_interval_end)
        /\ sink_log[Len(sink_log)].packets = last_call.before.packets
        /\ aggregator.buffer.packets = << fed[Len(fed)].packet >>

\* the fed timestamps never decrease, no add overflowed, no insert failed
MonotoneCleanRun ==
    /\ \A i \in 1..Len(fed) : fed[i].ret = "Ok"
    /\ \A i \in 1..Len(fed) - 1 : FedTime(i) <= FedTime(i + 1)
    /\ \A i \in 1..Len(sink_log) : sink_log[i].inserted

\* timestamp t lies in the aligned interval (k*I, (k+1)*I]
InInterval(k, t) == k * I < t /\ t <= (k + 1) * I

\* interval k received a packet and a later packet lies beyond its end
ClosedInterval(k) ==
    \E i \in 1..Len(fed) : \E j \in (i + 1)..Len(fed) :
        InInterval(k, FedTime(i)) /\ FedTime(j) > (k + 1) * I

RowsAt(t) == {i \in 1..Len(sink_log) : RowTime(i) = t}

\* C2: with non-decreasing timestamps (sink succeeding, no overflow), every
\* aligned interval that received a packet and was followed by a packet of a
\* later interval has exactly one archive record, dated with its end.
C2_OneRecordPerClosedInterval ==
    (n_flushes = 0 /\ MonotoneCleanRun) =>
        \A k \in -1..MaxTime :
            ClosedInterval(k) => Cardinality(RowsAt((k + 1) * I)) = 1

\* C3: the archive records handed to the sink, by add_packet calls in any
\* order and a final force_flush, have strictly increasing dateTime.
C3_RecordsStrictlyIncreasing ==
    \A i \in 1..Len(sink_log) - 1 : RowTime(i) < RowTime(i + 1)

\* C4: every archive record handed to the sink is dated with the aligned
\* upper bound of the interval it covers: a multiple of I, equal to
\* calculate_interval_end of the packets it covers.
C4_RecordTimeIsAlignedEnd ==
    \A i \in 1..Len(sink_log) :
        /\ RowTime(i) % I = 0
        /\ RowTime(i) = calculate_interval_end(I, sink_log[i].packets[1].date_time)

\* all packets fed lie in one interval, none overflowed, no insert failed
SingleIntervalRun ==
    /\ fed # << >>
    /\ \A i \in 1..Len(sink_log) : sink_log[i].inserted
    /\ \A i \in 1..Len(fed) :
           /\ fed[i].ret = "Ok"
           /\ calculate_interval_end(I, FedTime(i)) = calculate_interval_end(I, FedTime(1))

\* C5: a non-empty packet sequence lying in one interval, fed with
\* add_packet and closed by the shutdown force_flush, yields exactly one
\* archive record, dated with the interval end of those packets.
C5_SingleIntervalOneRecordAtEnd ==
    (SingleIntervalRun /\ n_flushes >= 1) =>
        /\ Len(sink_log) = 1
        /\ RowTime(1) = calculate_interval_end(I, FedTime(1))

(***************************************************************************)
(* Claims on the live state                                                *)
(***************************************************************************)
\* the last n elements of s (all of s when it is shorter)
LastN(s, n) == IF Len(s) > n THEN SubSeq(s, Len(s) - n + 1, Len(s)) ELSE s

NoInjectRunning == \A t \in Tasks : task[t].op # "inject_packet"

\* every inject_packet call so far ran alone and has returned
FedOneAtATime == ~concurrent_inject /\ NoInjectRunning

\* C6: after feeding a packet sequence P to inject_packet one call at a
\* time, history has length min(|P|, HISTORY_CAP) and is the last
\* min(|P|, HISTORY_CAP) packets of P in arrival order; and in every state
\* (hence every state a reader can observe) history holds at most
\* HISTORY_CAP packets.
C6_HistoryIsLastCapPackets ==
    /\ Len(history) <= HISTORY_CAP
    /\ FedOneAtATime =>
          /\ Len(history) = (IF Len(injected) <= HISTORY_CAP
                             THEN Len(injected) ELSE HISTORY_CAP)
          /\ history = LastN(injected, HISTORY_CAP)

\* C6 witness: more than HISTORY_CAP packets were fed one at a time, so the
\* oldest was evicted
C6_Witness ==
    /\ FedOneAtATime
    /\ Len(injected) > HISTORY_CAP
    /\ history = LastN(injected, HISTORY_CAP)
    /\ history[1] # injected[1]

\* C7: whenever no inject_packet call is in progress and history is
\* non-empty, latest is the last element of history, also when calls from
\* several tasks interleave.
C7_LatestIsLastOfHistory ==
    (NoInjectRunning /\ history # << >>) =>
        latest = Some(history[Len(history)])

\* C8: no reader observes, through current followed by history, a packet in
\* latest that has not yet been appended to history.
C8_NoTornRead == \A t \in Tasks : ~torn_read[t]

\* task t waits for a mutex another task holds
Blocked(t) ==
    \/ Instr(t) = "lock_latest" /\ latest_lock # None
    \/ Instr(t) = "lock_history" /\ history_lock # None

\* no task is about to take the latest mutex while it holds the history mutex
LockOrder ==
    \A t \in Tasks : ~(history_lock = Some(t) /\ Instr(t) = "lock_latest")

\* when some call is in progress, some call in progress can take its next step
NoDeadlock ==
    (\E t \in Tasks : task[t].op # "idle") =>
        \E t \in Tasks : task[t].op # "idle" /\ ~Blocked(t)

\* C9: no task waits for the latest mutex while holding the history mutex,
\* no interleaving of inject_packet, current and history deadlocks, and
\* under fair scheduling every call completes.
C9_LockOrderNoDeadlockCompletion ==
    /\ [](LockOrder /\ NoDeadlock)
    /\ \A t \in Tasks : []<>(task[t].op = "idle")

\* C9 witness: both mutexes are held and a third task waits for one of them
C9_Witness ==
    \E t, u, w \in Tasks :
        /\ t # u /\ u # w /\ t # w
        /\ history_lock = Some(t)
        /\ latest_lock = Some(u)
        /\ Blocked(w)

(***************************************************************************)
(* Claims on the station drivers                                           *)
(***************************************************************************)
LastDriverCall == driver_log[Len(driver_log)]

\* the driver the last call was made on, as it is now
CalledDriver ==
    IF LastDriverCall.driver = "simulator" THEN simulator ELSE interceptor

\* the last call was `op`, on a driver that was Active (TRUE) or Idle (FALSE)
LastCallWas(op, was_active) ==
    /\ driver_log # << >>
    /\ LastDriverCall.op = op
    /\ LastDriverCall.before.active = was_active

\* the parts of C10 other than start on an Idle driver
DriverLifecycleRest ==
    /\ driver_log = << >> => (~simulator.active /\ ~interceptor.active)
    /\ LastCallWas("start", TRUE) =>
           (~LastDriverCall.ret.ok /\ CalledDriver.active)
    /\ LastCallWas("get_packet", FALSE) =>
           (~LastDriverCall.ret.ok /\ CalledDriver = LastDriverCall.before)
    /\ LastCallWas("stop", TRUE) => ~CalledDriver.active
    /\ \A a \in BOOLEAN :
           LastCallWas("is_active", a) =>
               /\ LastDriverCall.ret = Ok(Some(a))
               /\ CalledDriver = LastDriverCall.before

\* start on an Idle INTERCEPTOR UDP driver whose socket could not be set up
SocketSetupFailed ==
    /\ LastCallWas("start", FALSE)
    /\ LastDriverCall.driver = "interceptor"
    /\ ~(Unwrap(LastDriverCall.input).bind_ok
         /\ Unwrap(LastDriverCall.input).broadcast_ok)

\* C10 as stated: for both driver variants, the driver is initially Idle;
\* start on an Idle driver makes it Active; start on an Active driver fails
\* and leaves it Active; get_packet on an Idle driver fails without changing
\* state; stop on an Active driver makes it Idle; is_active reports the state.
C10_StartOnIdleAlwaysActivates ==
    /\ DriverLifecycleRest
    /\ LastCallWas("start", FALSE) => CalledDriver.active

\* C10 amended: as C10, except that start on an Idle INTERCEPTOR UDP driver
\* fails with a CommunicationError and leaves the driver Idle when binding
\* the socket or enabling broadcast on it fails; otherwise start on an Idle
\* driver succeeds and makes it Active.
C10_DriverLifecycle ==
    /\ DriverLifecycleRest
    /\ LastCallWas("start", FALSE) =>
           IF SocketSetupFailed
           THEN /\ LastDriverCall.ret = Err("CommunicationError")
                /\ CalledDriver = LastDriverCall.before
           ELSE /\ LastDriverCall.ret.ok
                /\ CalledDriver.active

\* C10 witness: an INTERCEPTOR UDP driver whose first start failed on the
\* socket (it stayed Idle), whose second start succeeded, and whose third
\* start was refused (it stayed Active)
C10_Witness ==
    /\ Len(driver_log) = 3
    /\ \A i \in 1..3 : driver_log[i].driver = "interceptor" /\ driver_log[i].op = "start"
    /\ driver_log[1].ret = Err("CommunicationError")
    /\ ~driver_log[2].before.active /\ driver_log[2].ret.ok
    /\ driver_log[3].before.active /\ driver_log[3].ret = Err("DriverError")
    /\ interceptor.active

\* C11: stop on a driver that is already Idle (never started, or already
\* stopped) returns success and leaves it Idle, for the Simulator and for
\* the INTERCEPTOR UDP driver alike.
C11_StopOnIdleSucceeds ==
    LastCallWas("stop", FALSE) =>
        /\ LastDriverCall.ret.ok
        /\ ~CalledDriver.active

\* the INTERCEPTOR UDP driver as call i of the log left it
InterceptorAfter(i) ==
    LET later == {j \in (i + 1)..Len(driver_log) :
                      driver_log[j].driver = "interceptor"}
    IN IF later = {} THEN interceptor
       ELSE driver_log[CHOOSE j \in later : \A k \in later : j <= k].before

\* call i was a get_packet of the Active UDP driver that timed out or
\* received a datagram that does not parse
TransientError(i) ==
    /\ driver_log[i].driver = "interceptor"
    /\ driver_log[i].op = "get_packet"
    /\ driver_log[i].before.active
    /\ Unwrap(driver_log[i].input).event \in {"timeout", "garbage"}

\* call j was a get_packet of the Active UDP driver that received the JSON
\* of a packet
ValidDatagram(j) ==
    /\ driver_log[j].driver = "interceptor"
    /\ driver_log[j].op = "get_packet"
    /\ driver_log[j].before.active
    /\ Unwrap(driver_log[j].input).event = "json"

\* C12: a get_packet of the UDP driver that times out or receives an
\* unparsable datagram reports Timeout or InvalidPacket and leaves the
\* driver Active with its socket bound, and a valid datagram arriving
\* afterwards is returned by the later get_packet call that receives it.
C12_TransientErrorKeepsDriver ==
    \A i \in 1..Len(driver_log) :
        TransientError(i) =>
            /\ driver_log[i].ret =
                   (IF Unwrap(driver_log[i].input).event = "timeout"
                    THEN Err("Timeout") ELSE Err("InvalidPacket"))
            /\ InterceptorAfter(i) = driver_log[i].before
            /\ InterceptorAfter(i).active
            /\ IsSome(InterceptorAfter(i).socket)
            /\ \A j \in (i + 1)..Len(driver_log) :
                   ValidDatagram(j) =>
                       driver_log[j].ret = Ok(Unwrap(driver_log[j].input).packet)

\* C12 witness: the UDP driver was started, its first get_packet failed
\* with a transient error and its second returned the packet received
C12_Witness ==
    /\ Len(driver_log) = 3
    /\ driver_log[1].driver = "interceptor" /\ driver_log[1].op = "start"
    /\ TransientError(2)
    /\ ValidDatagram(3)
    /\ driver_log[3].ret.ok
    /\ interceptor.active

(***************************************************************************)
(* Claims on the buffer and the aggregator's error paths                   *)
(***************************************************************************)
\* the last call was an add_packet on a buffer holding max_packets packets
LastAddOnFullBuffer ==
    /\ last_call.op = "add_packet"
    /\ Len(last_call.before.packets) >= last_call.before.max_packets

\* C13: add on a buffer that already holds max_packets = max(2*I, floor)
\* packets fails with BufferOverflow and leaves the buffered packets and
\* current_interval_end unchanged (the packet is dropped, nothing is handed
\* to the sink); in every reachable state the buffer holds at most
\* max_packets packets.
C13_OverflowDropsPacket ==
    /\ aggregator.buffer.max_packets = MaxOf(2 * I, MAX_PACKETS_FLOOR)
    /\ Len(aggregator.buffer.packets) <= aggregator.buffer.max_packets
    /\ LastAddOnFullBuffer =>
           /\ last_call.ret = "BufferOverflow"
           /\ aggregator.buffer = last_call.before
           /\ last_call.handed = 0

\* C13 witness: an add_packet on a full buffer was refused, the packet fed
\* is not in the buffer
C13_Witness ==
    /\ LastAddOnFullBuffer
    /\ last_call.ret = "BufferOverflow"
    /\ Len(aggregator.buffer.packets) = aggregator.buffer.max_packets
    /\ Len(fed) > Len(aggregator.buffer.packets)

\* the packets the buffer accepted, in the order fed (an add_packet that
\* returns BufferOverflow drops its packet)
RECURSIVE AcceptedPackets(_)
AcceptedPackets(calls) ==
    IF calls = << >> THEN << >>
    ELSE (IF Head(calls).ret = "BufferOverflow" THEN << >>
          ELSE << Head(calls).packet >>) \o AcceptedPackets(Tail(calls))

\* the packets of the records handed to the sink, in order
RECURSIVE HandedPackets(_)
HandedPackets(rows) ==
    IF rows = << >> THEN << >>
    ELSE Head(rows).packets \o HandedPackets(Tail(rows))

\* the last call was an add_packet whose boundary flush failed at the sink
LastAddFailedAtSink ==
    /\ last_call.op = "add_packet"
    /\ last_call.handed = 1
    /\ ~sink_log[Len(sink_log)].inserted

\* the last call was an add_packet that followed one whose flush failed
LastAddFollowedFailure ==
    /\ last_call.op = "add_packet"
    /\ Len(fed) >= 2
    /\ fed[Len(fed) - 1].ret = "DatabaseError"

\* C14: when the sink insert fails during a boundary flush, add_packet
\* returns the error and the drained packets are not put back (the buffer
\* is empty, current_interval_end unset); no packet is ever handed to the
\* sink twice, so the failed record is not re-emitted by a later flush; and
\* the next add_packet buffers its packet and opens its interval as on a
\* new buffer.
C14_FailedRecordNotRetried ==
    /\ LastAddFailedAtSink =>
           /\ last_call.ret = "DatabaseError"
           /\ aggregator.buffer.packets = << >>
           /\ aggregator.buffer.current_interval_end = None
    /\ HandedPackets(sink_log) \o aggregator.buffer.packets = AcceptedPackets(fed)
    /\ LastAddFollowedFailure =>
           /\ last_call.ret = "Ok"
           /\ last_call.handed = 0
           /\ aggregator.buffer.packets = << fed[Len(fed)].packet >>
           /\ aggregator.buffer.current_interval_end =
                  Some(calculate_interval_end(I, FedTime(Len(fed))))

\* C14 witness: a boundary flush failed at the sink, and two add_packet
\* calls later the next boundary flush handed its record to the sink
C14_Witness ==
    /\ Len(fed) = 4
    /\ fed[2].ret = "DatabaseError"
    /\ fed[3].ret = "Ok" /\ fed[4].ret = "Ok"
    /\ Len(sink_log) = 2
    /\ ~sink_log[1].inserted /\ sink_log[2].inserted
    /\ last_call.op = "add_packet"

(***************************************************************************)
(* Claims on the scheduler                                                 *)
(***************************************************************************)
\* Scheduler::stop has returned
StopReturned == scheduler.pc = "done"

\* C15: Scheduler::stop stops the driver before it force-flushes the
\* aggregator, force-flushes also when driver.stop returned an error, and
\* always returns Ok; once force_flush has begun no add_packet follows (the
\* force_flush stays the last call on the aggregator, the loop is off); and
\* a non-empty buffer gives exactly one final record, over all the buffered
\* packets, handed to the sink.
C15_OrderedShutdown ==
    /\ \A i \in 1..Len(scheduler_trace) :
           scheduler_trace[i].call = "aggregator.force_flush" =>
               /\ i = 2
               /\ scheduler_trace[1].call = "driver.stop"
    /\ StopReturned =>
           /\ Len(scheduler_trace) = 2
           /\ scheduler_trace[2].call = "aggregator.force_flush"
           /\ scheduler.stop_ret = Some("Ok")
    /\ n_flushes <= 1
    /\ n_flushes = 1 =>
           /\ ~scheduler.running
           /\ scheduler.pc \in {"return", "done"}
           /\ last_call.op = "force_flush"
           /\ aggregator.buffer.packets = << >>
           /\ IF last_call.before.packets = << >>
              THEN last_call.handed = 0
              ELSE /\ last_call.handed = 1
                   /\ sink_log[Len(sink_log)].packets = last_call.before.packets

\* C15 witness: stop returned Ok although driver.stop failed, and the
\* force_flush handed the record of two buffered packets to the sink
C15_Witness ==
    /\ StopReturned
    /\ ~scheduler_trace[1].ok
    /\ scheduler.stop_ret = Some("Ok")
    /\ Len(last_call.before.packets) = 2
    /\ last_call.handed = 1

(***************************************************************************)
(* Claims on the read handlers                                             *)
(***************************************************************************)
MinOf(a, b) == IF a <= b THEN a ELSE b

\* task t completes GET /api/v1/history in this step
HistoryReturns(t) == Instr(t) = "load_history" /\ task'[t].op = "idle"

\* the N of the request task t serves: its limit parameter, or the default
RequestedLimit(t) ==
    IF IsSome(task[t].limit) THEN Unwrap(task[t].limit) ELSE DEFAULT_LIMIT

\* C16: GET /api/v1/history?limit=N returns 200 with the last
\* min(N, HISTORY_CAP, len(history)) packets of history, oldest first; without
\* a limit parameter N is the default; limit=0 returns an empty array; the
\* handler leaves latest and history unchanged.
C16_HistoryReturnsLastN ==
    [][\A t \in Tasks :
          HistoryReturns(t) =>
              LET n == MinOf(MinOf(RequestedLimit(t), HISTORY_CAP), Len(history))
              IN /\ response'[t].status = 200
                 /\ response'[t].json = "array"
                 /\ Len(response'[t].body) = n
                 /\ response'[t].body = LastN(history, n)
                 /\ (RequestedLimit(t) = 0 => response'[t].body = << >>)
                 /\ latest' = latest
                 /\ history' = history]_vars

\* C16 witness: a history request without limit returned the newest packet
\* only, of a history that holds more
C16_Witness ==
    \E t \in Tasks :
        /\ response[t].json = "array"
        /\ Len(response[t].body) = DEFAULT_LIMIT
        /\ Len(history) > DEFAULT_LIMIT
        /\ response[t].body = LastN(history, DEFAULT_LIMIT)
        /\ task[t].op = "idle"

\* task t completes GET /api/v1/current in this step
CurrentReturns(t) == Instr(t) = "load_latest" /\ task'[t].op = "idle"

\* C17: GET /api/v1/current returns 204 as long as no packet has been
\* injected and 200 with the packet held in latest otherwise: once an
\* inject_packet call has completed no call to current returns 204, and
\* latest is never reset to empty.
C17_CurrentStatus ==
    [][/\ \A t \in Tasks :
             CurrentReturns(t) =>
                 /\ injected = << >> => response'[t].status = 204
                 /\ appended # << >> => response'[t].status = 200
                 /\ response'[t].status \in {200, 204}
                 /\ response'[t].status = 204 =>
                        latest = None /\ response'[t].body = << >>
                 /\ response'[t].status = 200 =>
                        IsSome(latest) /\ response'[t].body = latest
       /\ IsSome(latest) => IsSome(latest')]_vars

\* C17 witness: a current request was answered 200 with the packet in
\* latest after an inject_packet call had completed
C17_Witness ==
    \E t \in Tasks :
        /\ task[t].op = "idle"
        /\ response[t].status = 200
        /\ response[t].json = "object"
        /\ response[t].body = latest
        /\ appended # << >>

(***************************************************************************)
(* Claims on readiness, health and the HTTP intake                         *)
(***************************************************************************)
\* a step that serves a request on the route
Serves(route) == api_last'.seq # api_last.seq /\ api_last'.route = route

\* C18: the ready flag is false after build_app; GET /readyz returns 200
\* exactly when the flag is true at the time of the request and 503
\* otherwise; GET /healthz returns 200 whatever the flag is; neither
\* handler changes the flag, latest or history.
C18_ReadinessGate ==
    /\ ready = FALSE
    /\ [][/\ Serves("GET /readyz") =>
                /\ api_last'.status = 200 <=> ready
                /\ api_last'.status = 503 <=> ~ready
                /\ UNCHANGED << ready, latest, history >>
          /\ Serves("GET /healthz") =>
                /\ api_last'.status = 200
                /\ UNCHANGED << ready, latest, history >>]_vars

\* C18 witness: after a readyz that returned 200 the flag was set back to
\* false, and the next request, a readyz, returned 503.
C18_Witness ==
    /\ api_last.route = "GET /readyz"
    /\ api_last.status = 503
    /\ api_last.prev = [route |-> "GET /readyz", status |-> 200]
    /\ ~ready

\* the routes of the intake handlers
UploadRoutes == {"GET /ingest/ecowitt"} \cup PostRoutes

\* a step that serves an upload
ServesUpload ==
    api_last'.seq # api_last.seq /\ api_last'.route \in UploadRoutes

\* the parameter vocabulary of the intake: every statement of either handler
Vocabulary == Range(ingest_ecowitt_statements) \cup Range(ingest_post_statements)

\* the value of the request's parameter parses as the number the
\* parameter carries (an integer for humidity and winddir, a float otherwise)
ParsesAsNumber(q, st) ==
    IF st.parse = "i64" THEN parse_i64(q, st.param) # None
    ELSE parse_f64(q, st.param) # None

\* the canonical keys of the recognized parameters of q whose values parse
CanonicalKeys(q) == {st.key : st \in {v \in Vocabulary : ParsesAsNumber(q, v)}}

\* C19: every upload to GET /ingest/ecowitt, POST /ingest/ecowitt or POST
\* /data returns 200 and injects exactly one packet into the live state
\* (it becomes latest and the one new, last element of history), whatever
\* the parameter values are; the packet's observation keys are exactly the
\* canonical keys of the recognized parameters whose values parse as
\* numbers.
C19_UploadInjectsParsedKeys ==
    [][ServesUpload =>
          /\ api_last'.status = 200
          /\ latest' # None
          /\ history' # << >>
          /\ history'[Len(history')] = Unwrap(latest')
          /\ \/ /\ Len(history') = Len(history) + 1
                /\ SubSeq(history', 1, Len(history)) = history
             \/ /\ Len(history) = HISTORY_CAP
                /\ Len(history') = HISTORY_CAP
                /\ SubSeq(history', 1, HISTORY_CAP - 1) = Tail(history)
          /\ DOMAIN Unwrap(latest').observations = CanonicalKeys(api_last'.q)]_vars

\* C20: the GET and POST intake endpoints accept the same parameter
\* vocabulary: for the parameters of every upload served, the packet
\* injected has the station and the observation keys and values of the
\* packet ingest_ecowitt builds from them, and of the packet ingest_post
\* builds from them.
C20_GetPostSameVocabulary ==
    api_last.route \in UploadRoutes =>
        LET by_get == ingest_ecowitt_packet(api_last.q, 0)
            by_post == ingest_post_packet(api_last.q, 0)
        IN /\ latest # None
           /\ Unwrap(latest).station = by_get.station
           /\ Unwrap(latest).station = by_post.station
           /\ Unwrap(latest).observations = by_get.observations
           /\ Unwrap(latest).observations = by_post.observations

(***************************************************************************)
(* Claims on the wire format and the UDP ingest task                       *)
(***************************************************************************)
\* the reader's last GET /api/v1/current returned the JSON of a packet that
\* carries the dateTime of the sender's packet p
ReadBack(p) ==
    /\ client.read.status = 200
    /\ client.read.body.json
    /\ client.read.body.object["dateTime"].v = p.date_time

\* C21: round trip: a canonical packet (observation values Float, Integer,
\* String and Null) serialized to wire JSON, sent over UDP, parsed by the
\* driver, injected and read back through /api/v1/current, and parsed by
\* the reader, equals the original: same dateTime, station, interval, and
\* the same observation keys with the same variant and value.
C21_WireRoundTrip ==
    \A p \in WirePackets :
        ReadBack(p) =>
            /\ from_slice(client.read.body).ok
            /\ LET q == from_slice(client.read.body).value
               IN /\ q.date_time = p.date_time
                  /\ q.station = p.station
                  /\ q.interval = p.interval
                  /\ DOMAIN q.observations = DOMAIN p.observations
                  /\ \A key \in DOMAIN p.observations :
                         /\ q.observations[key].tag = p.observations[key].tag
                         /\ q.observations[key].v = p.observations[key].v

\* the sender's last datagram was the JSON of a packet, the task has
\* handled every datagram its socket received, and no upload was served
LastDatagramHandled ==
    /\ client.sent # << >>
    /\ client.sent[Len(client.sent)].bytes.json
    /\ wire = << >>
    /\ ingest.pc = "get_packet"
    /\ api_last.route = "none"

\* C22: when start_interceptor_ingest is started on an ephemeral port
\* (port 0), the address it returns is the address on which the driver's
\* socket receives, so a valid packet datagram sent to the returned address
\* becomes the packet returned by /api/v1/current.
C22_ReturnedAddressReceives ==
    (ingest.bind = "127.0.0.1:0" /\ ingest.returned # None
        /\ Unwrap(ingest.returned).ok) =>
        /\ interceptor.socket = Some(Unwrap(ingest.returned).value)
        /\ LastDatagramHandled =>
               latest = Some(from_slice(client.sent[Len(client.sent)].bytes).value)

\* C26: a packet accepted by an HTTP intake handler goes through the same
\* fanout as a UDP packet: it is not only stored in the live state but is
\* also handed to the persistence sink, when there is one.
C26_HttpUploadFanout ==
    (api_last.route \in UploadRoutes /\ api_last.status = 200 /\ ingest.fs_sink) =>
        \E i \in 1..Len(emitted) :
            emitted[i].line = to_json(ingest_ecowitt_packet(api_last.q, 0))

\* the numeric values the packets carry under `key`, in packet order
NumbersUnder(packets, key) ==
    LET carries(p) == /\ key \in DOMAIN p.observations
                      /\ p.observations[key].tag \in {"Float", "Integer"}
        carrying == SelectSeq(packets, carries)
    IN [i \in 1..Len(carrying) |-> carrying[i].observations[key].v]

\* the kind the default table gives a key
TableKind(key) ==
    IF key = "rain" THEN "Sum"
    ELSE IF key = "windGust" THEN "Max"
    ELSE IF key \in {"outTemp", "inTemp", "dewpoint", "heatindex", "windchill",
                     "barometer", "pressure", "altimeter",
                     "outHumidity", "inHumidity", "windSpeed",
                     "radiation", "UV"} THEN "Avg"
    ELSE "Last"

\* `value` is the aggregate of `kind` over the non-empty sequence `numbers`
IsAggregate(kind, numbers, value) ==
    LET idx == 1..Len(numbers)
    IN /\ value # None
       /\ LET f == Unwrap(value)
          IN CASE kind = "Sum" -> f.n = SumSeq(numbers) * f.d
               [] kind = "Avg" -> f.n * Len(numbers) = SumSeq(numbers) * f.d
               [] kind = "Max" ->
                      /\ \E i \in idx : f.n = numbers[i] * f.d
                      /\ \A i \in idx : f.n >= numbers[i] * f.d
               [] kind = "Last" -> f.n = numbers[Len(numbers)] * f.d

\* the last call was aggregate_packets
AggregateCalled == call.fn = "aggregate_packets"

\* the rollup example: rain 1, 2, 3; outTemp 10, 20, 30; windGust 5, 15, 10
ExampleSlice ==
    /\ Len(call.args) = 3
    /\ \A i \in 1..3 : call.args[i].date_time = i

\* C23: aggregate_packets returns, for every observation key that has at
\* least one numeric value in the packets, the aggregate of the kind the
\* default table gives the key over the key's numeric values in packet
\* order: Sum for rain, Max for windGust, Last for windDir, windGustDir
\* and any unlisted key, Avg for the listed temperature, pressure,
\* humidity, wind-speed, radiation and UV keys; rain {1,2,3} gives 6,
\* outTemp {10,20,30} gives 20 and windGust {5,15,10} gives 15.
C23_DefaultAggregates ==
    AggregateCalled =>
        LET packets == call.args
            keys == UNION {DOMAIN packets[i].observations :
                               i \in 1..Len(packets)}
        IN /\ \A key \in keys :
                  NumbersUnder(packets, key) # << >> =>
                      /\ key \in DOMAIN call.ret
                      /\ call.ret[key].kind = TableKind(key)
                      /\ IsAggregate(TableKind(key),
                                     NumbersUnder(packets, key),
                                     call.ret[key].value)
           /\ ExampleSlice =>
                  /\ call.ret["rain"] = [kind |-> "Sum", value |-> Some(Frac(6, 1))]
                  /\ call.ret["outTemp"] = [kind |-> "Avg", value |-> Some(Frac(20, 1))]
                  /\ call.ret["windGust"] = [kind |-> "Max", value |-> Some(Frac(15, 1))]

\* C23 witness: aggregate_packets has been called on the example packets
\* and returned the rain sum 6, and on a slice whose unlisted key
\* extraTemp9 has the values 6, 2, 5 it returned the last one
C23_Witness ==
    /\ AggregateCalled
    /\ ExampleSlice
    /\ call.ret["rain"].value = Some(Frac(6, 1))
    /\ call.ret["extraTemp9"] = [kind |-> "Last", value |-> Some(Frac(5, 1))]
    /\ "note" \notin DOMAIN call.ret

\* the columns of the fixed archive schema
SchemaColumns ==
    {"outTemp", "inTemp", "extraTemp1", "outHumidity", "inHumidity",
     "barometer", "pressure", "altimeter", "windSpeed", "windDir", "windGust",
     "windGustDir", "rain", "rainRate", "dewpoint", "windchill", "heatindex",
     "radiation", "UV", "rxCheckPercent"}

\* some packet of the sequence carries a numeric value under `key`
CarriesNumber(packets, key) ==
    \E i \in 1..Len(packets) :
        /\ key \in DOMAIN packets[i].observations
        /\ packets[i].observations[key].tag \in {"Float", "Integer"}

\* the packets without their observations outside the schema
SchemaOnly(packets) ==
    [i \in 1..Len(packets) |->
        [packets[i] EXCEPT !.observations =
            [key \in DOMAIN @ \cap SchemaColumns |-> @[key]]]]

\* C24: in every archive record built by a flush, a schema column is
\* non-null exactly when at least one drained packet carries a numeric value
\* under the column's observation key, observation keys outside the fixed
\* schema never influence the record, and usUnits and interval equal the
\* values given at construction of the aggregator.
C24_RecordProjectsSchema ==
    [][/\ aggregator'.unit_system = aggregator.unit_system
       /\ aggregator'.interval = aggregator.interval
       /\ \A i \in (Len(sink_log) + 1)..Len(sink_log') :
              LET row == sink_log'[i].row
                  drained == sink_log'[i].packets
                  aggregates == aggregate_packets(SchemaOnly(drained))
              IN /\ DOMAIN row.columns = SchemaColumns
                 /\ \A column \in SchemaColumns :
                        row.columns[column] # None <=>
                            CarriesNumber(drained, column)
                 /\ \A column \in DOMAIN aggregates :
                        row.columns[column] = aggregates[column].value
                 /\ row.us_units = aggregator.unit_system
                 /\ row.interval = aggregator.interval]_vars

\* C24 witness: a record was built from packets that carry a number under
\* a key outside the schema, a String, and a Null under a schema column,
\* with the unit system and the interval of the aggregator and some columns
\* null
C24_Witness ==
    \E i \in 1..Len(sink_log) :
        LET row == sink_log[i].row
            drained == sink_log[i].packets
        IN /\ CarriesNumber(drained, "soilTemp1")
           /\ \E j \in 1..Len(drained) :
                  /\ "note" \in DOMAIN drained[j].observations
                  /\ drained[j].observations["windDir"] = Null
           /\ row.columns["windDir"] # None
           /\ row.columns["rain"] # None
           /\ row.columns["UV"] = None
           /\ row.us_units = 16
           /\ row.interval = 2

\* the last call was calculate_interval_end
IntervalEndCalled == call.fn = "calculate_interval_end"

\* the value returned is the end of the interval of length `length` that
\* the timestamp falls in
IsIntervalEnd(length, timestamp, returned) ==
    /\ returned # None
    /\ Unwrap(returned) = ((timestamp \div length) + 1) * length
    /\ Unwrap(returned) > timestamp
    /\ Unwrap(returned) - timestamp <= length
    /\ \A k \in 0..timestamp :
           timestamp = k * length => Unwrap(returned) = (k + 1) * length

\* C25: for all t >= 0 and interval I > 0, calculate_interval_end(t) =
\* ((t / I) + 1) * I with truncating division, calculate_interval_end(t) > t,
\* calculate_interval_end(t) - t <= I, and calculate_interval_end(k*I) =
\* (k+1)*I.
C25_IntervalEndAllTimestamps ==
    IntervalEndCalled =>
        IsIntervalEnd(call.before.interval, call.args[1], call.ret)

\* C25 as amended: the same for all t >= 0 and I > 0 for which
\* ((t / I) + 1) * I does not exceed i64::MAX.
C25_IntervalEndRepresentable ==
    (/\ IntervalEndCalled
     /\ ((call.args[1] \div call.before.interval) + 1) * call.before.interval
            <= I64_MAX) =>
        IsIntervalEnd(call.before.interval, call.args[1], call.ret)

\* C25 witness: calculate_interval_end was called with a positive multiple
\* of the interval length 2 and returned the next multiple
C25_Witness ==
    /\ IntervalEndCalled
    /\ call.before.interval = 2
    /\ call.args[1] > 0
    /\ call.args[1] % 2 = 0
    /\ call.ret = Some(call.args[1] + 2)

\* C27: every packet accepted into the interval buffer by add_packet has
\* dateTime >= 0; a packet with a negative dateTime is never buffered and
\* never contributes to an archive record.
C27_NoNegativeTimestampAccepted ==
    /\ \A i \in 1..Len(aggregator.buffer.packets) :
           aggregator.buffer.packets[i].date_time >= 0
    /\ \A i \in 1..Len(sink_log) :
           \A j \in 1..Len(sink_log[i].packets) :
               sink_log[i].packets[j].date_time >= 0

\* the last call was a get_packet of the Active UDP driver whose recv_from
\* failed
ReceiveFailed ==
    /\ LastCallWas("get_packet", TRUE)
    /\ LastDriverCall.driver = "interceptor"
    /\ Unwrap(LastDriverCall.input).event = "io_error"

\* C28: after a fatal socket-level failure the UDP driver is Idle: when
\* start fails at bind or socket configuration the driver stays Idle with no
\* socket, and when get_packet fails with a socket-level error the driver
\* transitions to Idle.
C28_SocketFailureLeavesIdle ==
    /\ SocketSetupFailed =>
           /\ ~LastDriverCall.ret.ok
           /\ ~interceptor.active
           /\ interceptor.socket = None
    /\ ReceiveFailed =>
           /\ ~LastDriverCall.ret.ok
           /\ ~interceptor.active

\* C29: a flush of an empty buffer (force_flush when nothing is buffered,
\* including a second force_flush in a row) returns success and hands no
\* record to the sink; every archive record ever emitted aggregates at least
\* one packet.
C29_EmptyFlushWritesNothing ==
    /\ [](\A i \in 1..Len(sink_log) : sink_log[i].packets # << >>)
    /\ [][(/\ n_flushes' = n_flushes + 1
           /\ aggregator.buffer.packets = << >>) =>
              /\ last_call'.op = "force_flush"
              /\ last_call'.ret = "Ok"
              /\ sink_log' = sink_log
              /\ aggregator'.buffer.packets = << >>]_vars

\* C29 witness: a force_flush wrote a record and emptied the buffer, and a
\* second force_flush directly after it returned success
C29_Witness ==
    /\ n_flushes = 2
    /\ Len(sink_log) = 1
    /\ last_call.op = "force_flush"
    /\ last_call.before.packets = << >>
    /\ last_call.ret = "Ok"
    /\ last_call.handed = 0
    /\ fed # << >>
    /\ \A i \in 1..Len(fed) : fed[i].ret = "Ok"

\* the last call was an add that did not overflow
Added == call.fn = "add" /\ call.ret.err = ""

C31_DrainResets ==
    [][/\ call'.fn = "drain" =>
              /\ call'.ret = packet_buffer.packets
              /\ packet_buffer'.packets = << >>
              /\ packet_buffer'.current_interval_end = None
              /\ packet_buffer'.interval = packet_buffer.interval
       /\ (call.fn = "drain" /\ call'.fn = "add") =>
              LET time == call'.args[1].date_time
              IN /\ call'.ret = [err |-> "", ok |-> None]
                 /\ packet_buffer'.packets = << call'.args[1] >>
                 /\ packet_buffer'.current_interval_end =
                        Some(((time \div packet_buffer.interval) + 1)
                                 * packet_buffer.interval)]_vars

\* C31 witness: a drain returned two packets in the order they were added,
\* the later one first, from a buffer whose interval end was set
C31_Witness ==
    /\ call.fn = "drain"
    /\ Len(call.ret) = 2
    /\ call.ret[1].date_time > call.ret[2].date_time
    /\ call.before.current_interval_end # None
    /\ packet_buffer.packets = << >>
    /\ packet_buffer.current_interval_end = None

\* the packets without their String and Null observations
NumericOnly(packets) ==
    [i \in 1..Len(packets) |->
        [packets[i] EXCEPT !.observations =
            [key \in {k \in DOMAIN @ : @[k].tag \in {"Float", "Integer"}} |->
                @[key]]]]

\* C32: aggregate_packets ignores non-numeric observation values: a key
\* whose values are String or Null in every packet is absent from the result
\* map, String/Null values of a key that also has numeric values do not
\* count toward its Avg, Count or Last, and every entry present in the
\* result map carries a value (never an empty aggregate).
C32_NonNumericIgnored ==
    AggregateCalled =>
        LET packets == call.args
            keys == UNION {DOMAIN packets[i].observations :
                               i \in 1..Len(packets)}
        IN /\ \A key \in keys :
                  ~CarriesNumber(packets, key) => key \notin DOMAIN call.ret
           /\ \A key \in DOMAIN call.ret : call.ret[key].value # None
           /\ call.ret = aggregate_packets(NumericOnly(packets))
           /\ \A key \in DOMAIN call.ret :
                  LET numbers == NumbersUnder(packets, key)
                      value == Unwrap(call.ret[key].value)
                  IN /\ call.ret[key].kind = "Avg" =>
                            value.n * Len(numbers) = SumSeq(numbers) * value.d
                     /\ call.ret[key].kind = "Last" =>
                            value.n = numbers[Len(numbers)] * value.d

\* C32 witness: aggregate_packets was called on a slice whose second packet
\* carries outTemp as Null between the outTemp values 10 and 20, and whose
\* note key is only ever Null; it returned the average 15 and no note
C32_Witness ==
    /\ AggregateCalled
    /\ Len(call.args) = 3
    /\ call.args[1].date_time = 1
    /\ call.args[2].date_time = 4
    /\ call.args[3].date_time = 2
    /\ call.args[2].observations["outTemp"] = Null
    /\ call.ret["outTemp"] = [kind |-> "Avg", value |-> Some(Frac(15, 1))]
    /\ "note" \notin DOMAIN call.ret

\* C33: no error in the packet loop stops ingestion: in Scheduler.run an
\* error from driver.get_packet or aggregator.add_packet (BufferOverflow,
\* sink failure), and in the UDP ingest task an error from get_packet,
\* leaves the loop running, and the next packet delivered by the driver is
\* processed.
C33_ErrorsKeepLoopsRunning ==
    /\ [][(scheduler.pc = "get_packet" /\ scheduler.running) =>
              /\ scheduler'.pc = "get_packet"
              /\ scheduler'.running]_vars
    /\ [][(ingest.pc = "get_packet" /\ wire' # wire /\ Len(wire') < Len(wire)) =>
              /\ ingest'.pc = "get_packet"
              /\ interceptor' = interceptor
              /\ IF from_slice(Head(wire)).ok
                 THEN latest' = Some(from_slice(Head(wire)).value)
                 ELSE latest' = latest]_vars
    /\ [](scheduler.cycle = "Err" =>
              /\ scheduler.pc = "get_packet"
              /\ scheduler.running
              /\ Len(fed) < MaxAdds =>
                     \A sink_ok \in BOOLEAN :
                         ENABLED Scheduler_process_packet(
                                     Packet(0, ObsFor(0)), sink_ok))
    /\ []((ingest.pc = "get_packet" /\ wire # << >>) => ENABLED ingest_get_packet)

\* C33 witness: the scheduler's loop added a packet to the buffer in the
\* cycle after one that failed at the sink, and the ingest task made its
\* second datagram the latest packet after its first did not parse
C33_Witness ==
    /\ \E i \in 1..(Len(fed) - 1) :
           fed[i].ret = "DatabaseError" /\ fed[i + 1].ret = "Ok"
    /\ Len(client.sent) = 2
    /\ ~client.sent[1].bytes.json
    /\ client.sent[2].bytes.json
    /\ wire = << >>
    /\ latest = Some(from_slice(client.sent[2].bytes).value)

\* the datagrams the task's socket received, in order, that parse as packets
ReceivedPackets ==
    LET delivered(d) == interceptor.socket = Some(d.dest) /\ d.bytes.json
        datagrams == SelectSeq(client.sent, delivered)
    IN [i \in 1..Len(datagrams) |-> from_slice(datagrams[i].bytes).value]

\* C34: in the UDP ingest task each received packet is written to the live
\* state (latest and history) before it is emitted to the filesystem sink,
\* packets are emitted to the sink in the order the task received them, and
\* a failed emit neither undoes the live-state update nor stops the task.
C34_InjectThenEmitInOrder ==
    /\ [](/\ Len(emitted) <= Len(ReceivedPackets)
          /\ \A i \in 1..Len(emitted) :
                 emitted[i].line = to_json(ReceivedPackets[i]))
    /\ [][/\ (ingest.pc = "get_packet" /\ ingest'.pc = "emit") =>
                 /\ emitted' = emitted
                 /\ latest' = ingest'.pkt
                 /\ history' # << >>
                 /\ Some(history'[Len(history')]) = ingest'.pkt
                 /\ ingest'.pkt = Some(ReceivedPackets[Len(emitted) + 1])
          /\ Len(emitted') > Len(emitted) =>
                 /\ ingest.pc = "emit"
                 /\ emitted' = Append(emitted, emitted'[Len(emitted')])
                 /\ emitted'[Len(emitted')].line = to_json(Unwrap(ingest.pkt))
                 /\ latest' = latest
                 /\ history' = history
                 /\ ingest'.pc = "get_packet"]_vars

\* C34 witness: the task emitted two different packets in the order it
\* received them; the first emit failed, and the second packet is the
\* latest packet
C34_Witness ==
    /\ Len(emitted) = 2
    /\ ~emitted[1].ok
    /\ emitted[2].ok
    /\ emitted[1].line # emitted[2].line
    /\ emitted[1].line = client.sent[1].bytes
    /\ latest = Some(ReceivedPackets[2])
    /\ Len(history) = 2

\* the interval buffer holds max_packets packets
BufferFull ==
    Len(aggregator.buffer.packets) >= aggregator.buffer.max_packets

\* C35: once the interval buffer holds max_packets packets, every later
\* add_packet fails with BufferOverflow whatever the packet's dateTime is,
\* including a packet beyond the interval end that would otherwise trigger a
\* flush; the buffer is therefore never drained by add_packet again and only
\* force_flush empties it.
C35_FullBufferStaysFull ==
    /\ [](\A i \in 1..Len(fed) : \A j \in i..Len(fed) :
              fed[i].ret = "BufferOverflow" => fed[j].ret = "BufferOverflow")
    /\ [][BufferFull =>
              /\ Len(fed') > Len(fed) =>
                     /\ fed'[Len(fed')].ret = "BufferOverflow"
                     /\ aggregator' = aggregator
                     /\ sink_log' = sink_log
              /\ aggregator'.buffer # aggregator.buffer =>
                     /\ n_flushes' = n_flushes + 1
                     /\ last_call'.op = "force_flush"
                     /\ aggregator'.buffer.packets = << >>]_vars

\* C35 witness: two add_packet calls in a row were refused on the full
\* buffer, the second for a packet beyond the interval end, and the buffer
\* is still full
C35_Witness ==
    /\ Len(fed) >= 2
    /\ fed[Len(fed) - 1].ret = "BufferOverflow"
    /\ fed[Len(fed)].ret = "BufferOverflow"
    /\ last_call.op = "add_packet"
    /\ fed[Len(fed)].packet.date_time >
           Unwrap(aggregator.buffer.current_interval_end)
    /\ BufferFull
    /\ sink_log = << >>

AcceptedByStep ==
    IF Len(fed') > Len(fed) /\ fed'[Len(fed')].ret # "BufferOverflow"
    THEN << fed'[Len(fed')].packet >> ELSE << >>

\* C37: every packet that add_packet accepts into the buffer is drained
\* exactly once: it contributes to at most one archive record, never to two,
\* and it is in no record only if it is still buffered or its flush failed
\* at the sink.
C37_DrainedExactlyOnce ==
    /\ (sink_log = << >> /\ aggregator.buffer.packets = << >>)
    /\ [][/\ Len(sink_log') <= Len(sink_log) + 1
          /\ SubSeq(sink_log', 1, Len(sink_log)) = sink_log
          /\ HandedPackets(SubSeq(sink_log', Len(sink_log) + 1, Len(sink_log')))
                 \o aggregator'.buffer.packets
             = aggregator.buffer.packets \o AcceptedByStep]_vars

\* C37 witness: two packets were drained into a record whose insert failed,
\* a third packet accepted afterwards is buffered, and no packet is in any
\* other record
C37_Witness ==
    /\ Len(sink_log) = 1
    /\ ~sink_log[1].inserted
    /\ Len(sink_log[1].packets) = 2
    /\ Len(aggregator.buffer.packets) = 1
    /\ Len(fed) = 3
    /\ \A i \in 1..3 : fed[i].ret # "BufferOverflow"

\* the last call was an add, not overflowing, of a packet whose dateTime is
\* k times the interval length
AddedAtMultiple(k) ==
    /\ Added
    /\ call.args[1].date_time = k * call.before.interval

Carrying(packets, key) ==
    {i \in 1..Len(packets) :
        /\ key \in DOMAIN packets[i].observations
        /\ packets[i].observations[key].tag \in {"Float", "Integer"}}

\* the numeric value under `key` of the packet that arrived last among those
\* that carry one
LastArrivedValue(packets, key) ==
    LET carrying == Carrying(packets, key)
    IN IF carrying = {} THEN None
       ELSE LET last == CHOOSE i \in carrying : \A j \in carrying : j <= i
            IN Some(Frac(packets[last].observations[key].v, 1))

\* the columns of the archive schema whose observation is aggregated with
\* Last: windDir, windGustDir and the columns outside the default table
LastColumns ==
    {"windDir", "windGustDir", "extraTemp1", "rainRate", "rxCheckPercent"}

\* C39: for observations aggregated with Last (windDir, windGustDir and
\* every key outside the default table) the archive value is the numeric
\* value of the packet that arrived last in the flushed buffer, not of the
\* packet with the greatest dateTime; when a late packet with an older
\* timestamp arrives after a newer one, the older packet's value is the one
\* recorded.
C39_LastIsLastArrived ==
    /\ \A column \in SchemaColumns :
           column \in LastColumns <=> default_aggregate_type(column) = "Last"
    /\ [][\A i \in (Len(sink_log) + 1)..Len(sink_log') :
              LET row == sink_log'[i].row
                  drained == sink_log'[i].packets
              IN \A column \in LastColumns :
                     row.columns[column] = LastArrivedValue(drained, column)]_vars

\* C39 witness: a record was built from a buffer in which the packet of
\* dateTime 0 arrived after the packet of dateTime 2, both with a numeric
\* windDir, and the record has the windDir of the older packet
C39_Witness ==
    \E i \in 1..Len(sink_log) :
        LET row == sink_log[i].row
            drained == sink_log[i].packets
        IN /\ Len(drained) >= 2
           /\ drained[Len(drained)].date_time = 0
           /\ drained[Len(drained)].observations["windDir"] = Integer(0)
           /\ \E j \in 1..(Len(drained) - 1) :
                  /\ drained[j].date_time = 2
                  /\ drained[j].observations["windDir"] = Integer(2)
           /\ row.columns["windDir"] = Some(Frac(0, 1))

====
